---- MODULE Spec2Model ----
(***************************************************************************)
(* GoCardless MCP server (src/src/index.ts): the tool registry, the HTTP   *)
(* adapter makeGoCardlessRequest and the two request handlers (list tools, *)
(* call tool), modelled as a state machine.  A call-tool invocation runs   *)
(* up to its single await (the outbound fetch), is suspended there, and is *)
(* resumed by the upstream outcome.                                        *)
(*                                                                         *)
(* JavaScript values are records [t, s, n]: t is the typeof tag, s the     *)
(* string payload (the JSON text for an object), n the number payload      *)
(* (0/1 for a boolean).  Texts are TLA+ strings built with \o, so that a   *)
(* rendered text is compared character by character.                       *)
(***************************************************************************)
EXTENDS Integers, Sequences, FiniteSets, TLC

VARIABLES
    env,                \* process.env: the two variables the server reads
    GOCARDLESS_CONFIG,  \* the configuration object built at module load
    tools,              \* the tool registry
    pc,                 \* per request slot: "idle", "awaiting" (the fetch), "done"
    request,            \* per slot: the request being handled
    sent,               \* per slot: the fetch calls issued for the request so far
    settled,            \* per slot: the upstream outcome the fetch settled with
    result,             \* per slot: the ToolResult returned by the call-tool handler
    listed,             \* per slot: the tools returned by the list-tools handler
    running             \* the server process is alive

vars ==
    <<env, GOCARDLESS_CONFIG, tools, pc, request, sent, settled, result, listed, running>>

(***************************************************************************)
(* Bounds of the model.                                                    *)
(***************************************************************************)
\* At most this many keys of a tool's argument object are left out.
MaxAbsent == 2
\* At most this many resources in an upstream list response.
MaxItems == 2

\* Amounts in minor units run over 0..MaxAmount (and the 2999 of the tests).
MaxAmount == 120

(***************************************************************************)
(* JavaScript values.                                                      *)
(***************************************************************************)
Undefined == [t |-> "undefined", s |-> "", n |-> 0]
Null == [t |-> "object_null", s |-> "", n |-> 0]
Str(x) == [t |-> "string", s |-> x, n |-> 0]
Num(k) == [t |-> "number", s |-> "", n |-> k]
Bool(b) == [t |-> "boolean", s |-> "", n |-> IF b THEN 1 ELSE 0]
\* An object, carried by its JSON text.
Obj(json) == [t |-> "object", s |-> json, n |-> 0]

\* typeof v
TypeOf(v) == IF v.t = "object_null" THEN "object" ELSE v.t

\* ToBoolean(v): what `if (v)`, `!v`, `v || d` and `v ? a : b` test.
Truthy(v) ==
    CASE v.t = "string" -> v.s # ""
      [] v.t = "number" -> v.n # 0
      [] v.t = "boolean" -> v.n = 1
      [] v.t = "object" -> TRUE
      [] OTHER -> FALSE

\* v || d
OrElse(v, d) == IF Truthy(v) THEN v ELSE d

\* String(v), as done by a template literal `${v}` and by v.toString() on a
\* number, string or boolean.
ToStr(v) ==
    CASE v.t = "string" -> v.s
      [] v.t = "number" -> ToString(v.n)
      [] v.t = "boolean" -> (IF v.n = 1 THEN "true" ELSE "false")
      [] v.t = "object" -> "[object Object]"
      [] v.t = "object_null" -> "null"
      [] OTHER -> "undefined"

Digits == <<"0", "1", "2", "3", "4", "5", "6", "7", "8", "9">>

IsDigit(c) == \E i \in 1..10 : Digits[i] = c

DigitVal(c) == (CHOOSE i \in 1..10 : Digits[i] = c) - 1

RECURSIVE ParseDigits(_)
ParseDigits(s) ==
    IF Len(s) = 0 THEN 0
    ELSE 10 * ParseDigits(SubSeq(s, 1, Len(s) - 1)) + DigitVal(SubSeq(s, Len(s), Len(s)))

\* Number(v) and the implicit ToNumber of `v / 100`, on integers and on the
\* strings of the model: [nan, n].
ToNumber(v) ==
    CASE v.t = "number" -> [nan |-> FALSE, n |-> v.n]
      [] v.t = "boolean" -> [nan |-> FALSE, n |-> v.n]
      [] v.t = "object_null" -> [nan |-> FALSE, n |-> 0]
      [] v.t = "string" ->
            IF \A i \in 1..Len(v.s) : IsDigit(SubSeq(v.s, i, i))
            THEN [nan |-> FALSE, n |-> ParseDigits(v.s)]
            ELSE [nan |-> TRUE, n |-> 0]
      [] OTHER -> [nan |-> TRUE, n |-> 0]

CentsUnpadded(m) == ToString(m \div 100) \o "." \o ToString(m % 100)

\* (v / 100).toFixed(2) for an integer number of minor units.
Cents(m) ==
    LET a == IF m < 0 THEN 0 - m ELSE m
        frac == a % 100
    IN  (IF m < 0 THEN "-" ELSE "") \o ToString(a \div 100) \o "."
            \o (IF frac < 10 THEN "0" ELSE "") \o ToString(frac)

DivideBy100ToFixed2(v) ==
    LET num == ToNumber(v) IN IF num.nan THEN "NaN" ELSE Cents(num.n)

\* JSON.stringify(v) of one value (the strings of the model need no escaping).
JsonOf(v) ==
    CASE v.t = "string" -> "\"" \o v.s \o "\""
      [] v.t = "number" -> ToString(v.n)
      [] v.t = "boolean" -> (IF v.n = 1 THEN "true" ELSE "false")
      [] v.t = "object" -> v.s
      [] OTHER -> "null"

\* JSON.stringify of an object literal given as its <<key, value>> pairs in
\* insertion order: a property whose value is undefined is left out.
RECURSIVE JsonMembers(_, _)
JsonMembers(pairs, first) ==
    IF pairs = <<>> THEN ""
    ELSE IF Head(pairs)[2].t = "undefined" THEN JsonMembers(Tail(pairs), first)
    ELSE (IF first THEN "" ELSE ",") \o "\"" \o Head(pairs)[1] \o "\":"
            \o JsonOf(Head(pairs)[2]) \o JsonMembers(Tail(pairs), FALSE)

JsonStringify(pairs) == "{" \o JsonMembers(pairs, TRUE) \o "}"

\* An object literal as a value.
ObjOf(pairs) == Obj(JsonStringify(pairs))

\* JSON.stringify(v, null, 2) as used for the metadata line: undefined stays
\* undefined, an empty object prints as {}.
JsonPretty(v) == IF v.t = "undefined" THEN Undefined ELSE Str(JsonOf(v))

\* t contains s
Contains(t, sub) ==
    \E i \in 1..(Len(t) - Len(sub) + 1) : SubSeq(t, i, i + Len(sub) - 1) = sub

StartsWith(t, pre) == Len(t) >= Len(pre) /\ SubSeq(t, 1, Len(pre)) = pre

(***************************************************************************)
(* Process configuration (index.ts 34-50).                                 *)
(***************************************************************************)
\* The API version string of GOCARDLESS_CONFIG.version.
ApiVersion == "2015-07-06"

\* GOCARDLESS_CONFIG as built at module load from process.env e.
LoadConfig(e) ==
    [environment |-> OrElse(e.GOCARDLESS_ENVIRONMENT, Str("sandbox")).s,
     accessToken |-> OrElse(e.GOCARDLESS_ACCESS_TOKEN, Str("")).s,
     version |-> ApiVersion]

LiveHost == "https://api.gocardless.com"

SandboxHost == "https://api-sandbox.gocardless.com"

getApiBaseUrlAnyCase(cfg) ==
    IF cfg.environment \in {"live", "Live", "production"} THEN LiveHost ELSE SandboxHost

\* getApiBaseUrl(), reading the configuration cfg.
getApiBaseUrl(cfg) ==
    IF cfg.environment = "live" THEN LiveHost ELSE SandboxHost

(***************************************************************************)
(* HTTP adapter (index.ts 56-75).                                          *)
(***************************************************************************)
\* options = {} : no method, no body, no headers.
NoOptions == [method |-> Undefined, body |-> Undefined, headers |-> <<>>]

PostOptions(body) == [method |-> Str("POST"), body |-> Str(body), headers |-> <<>>]

SpreadReplacing(a, b) == IF DOMAIN b = {} THEN a ELSE b

\* { ...a, ...b } on header maps: the later one wins.
Spread(a, b) ==
    [k \in (DOMAIN a) \cup (DOMAIN b) |-> IF k \in DOMAIN b THEN b[k] ELSE a[k]]

DefaultHeaders(cfg) ==
    ("Authorization" :> ("Bearer " \o cfg.accessToken))
        @@ ("GoCardless-Version" :> cfg.version)
        @@ ("Content-Type" :> "application/json")

\* The arguments of the fetch call of makeGoCardlessRequest(endpoint, options).
FetchCall(cfg, endpoint, options) ==
    [url |-> getApiBaseUrl(cfg) \o endpoint,
     method |-> options.method,
     body |-> options.body,
     headers |-> Spread(DefaultHeaders(cfg), options.headers)]

\* The HTTP method fetch uses: GET when the init names none.
HttpMethod(call) == IF call.method.t = "undefined" THEN "GET" ELSE call.method.s

\* A thrown value: an Error object (isErr) with its message.
Thrown(msg) == [isErr |-> TRUE, message |-> msg]

\* Upstream outcomes of one fetch: a 2xx response with a JSON body, a 2xx
\* response whose body is no JSON, a non-2xx response, a rejected fetch.
Ok(data) ==
    [kind |-> "ok", status |-> 200, statusText |-> "OK", text |-> "", data |-> data]

NotOk(status, statusText, text) ==
    [kind |-> "not_ok", status |-> status, statusText |-> statusText, text |-> text,
     data |-> <<>>]

BadJson(msg) ==
    [kind |-> "bad_json", status |-> 200, statusText |-> "OK", text |-> msg, data |-> <<>>]

Rejected(msg) ==
    [kind |-> "rejected", status |-> 0, statusText |-> "", text |-> msg, data |-> <<>>]

ApiErrorMessageNoStatus(o) == "GoCardless API error: " \o o.statusText \o "\n" \o o.text

\* The message of the Error thrown for a response that is not ok.
ApiErrorMessage(o) ==
    "GoCardless API error: " \o ToString(o.status) \o " " \o o.statusText \o "\n" \o o.text

\* How the awaited makeGoCardlessRequest settles on outcome o:
\* [threw, error, data].
AdapterSettles(o) ==
    CASE o.kind = "ok" -> [threw |-> FALSE, error |-> Thrown(""), data |-> o.data]
      [] o.kind = "not_ok" ->
            [threw |-> TRUE, error |-> Thrown(ApiErrorMessage(o)), data |-> <<>>]
      [] OTHER -> [threw |-> TRUE, error |-> Thrown(o.text), data |-> <<>>]

(***************************************************************************)
(* URLSearchParams (index.ts 414-418, 568-573, 726-731).                   *)
(***************************************************************************)
\* application/x-www-form-urlencoded serialisation of one character.
FormEncodeChar(c) ==
    CASE c = " " -> "+"
      [] c = "&" -> "%26"
      [] c = "=" -> "%3D"
      [] c = "+" -> "%2B"
      [] c = "%" -> "%25"
      [] c = "/" -> "%2F"
      [] c = ":" -> "%3A"
      [] c = "@" -> "%40"
      [] c = "?" -> "%3F"
      [] c = "#" -> "%23"
      [] OTHER -> c

RECURSIVE FormEncode(_)
FormEncode(s) ==
    IF Len(s) = 0 THEN ""
    ELSE FormEncodeChar(SubSeq(s, 1, 1)) \o FormEncode(SubSeq(s, 2, Len(s)))

\* `${queryParams}` for the pairs set so far, in insertion order.
RECURSIVE QueryString(_)
QueryString(pairs) ==
    IF pairs = <<>> THEN ""
    ELSE Head(pairs)[1] \o "=" \o FormEncode(Head(pairs)[2])
            \o (IF Tail(pairs) = <<>> THEN "" ELSE "&") \o QueryString(Tail(pairs))

(***************************************************************************)
(* Tool registry (index.ts 81-365): name, properties with their declared   *)
(* types, required set and declared defaults (descriptions left out).      *)
(***************************************************************************)
Tool(name, properties, required, defaults) ==
    [name |-> name, properties |-> properties, required |-> required,
     defaults |-> defaults]

ListCustomersTool ==
    Tool("list_customers", [limit |-> "number", after |-> "string"], {},
         [limit |-> Num(50)])

CreateCustomerTool ==
    Tool("create_customer",
         [email |-> "string", given_name |-> "string", family_name |-> "string",
          company_name |-> "string", address_line1 |-> "string", city |-> "string",
          postal_code |-> "string", country_code |-> "string"],
         {"email", "given_name", "family_name"}, <<>>)

GetCustomerTool ==
    Tool("get_customer", [customer_id |-> "string"], {"customer_id"}, <<>>)

ListCustomerBankAccountsTool ==
    Tool("list_customer_bank_accounts", [customer_id |-> "string"], {"customer_id"}, <<>>)

CreateRedirectFlowTool ==
    Tool("create_redirect_flow",
         [description |-> "string", session_token |-> "string",
          success_redirect_url |-> "string", prefilled_customer |-> "object"],
         {"description", "session_token", "success_redirect_url"}, <<>>)

ListPaymentsTool ==
    Tool("list_payments", [limit |-> "number", customer |-> "string", status |-> "string"],
         {}, [limit |-> Num(50)])

CreateBillingRequestTool ==
    Tool("create_billing_request",
         [amount_cents |-> "number", currency |-> "string", description |-> "string",
          customer_email |-> "string", customer_given_name |-> "string",
          customer_family_name |-> "string", customer_company_name |-> "string",
          payment_reference |-> "string"],
         {"amount_cents", "currency", "description", "customer_email",
          "customer_given_name", "customer_family_name"}, <<>>)

CreateBillingRequestFlowTool ==
    Tool("create_billing_request_flow",
         [billing_request_id |-> "string", redirect_uri |-> "string",
          exit_uri |-> "string", session_token |-> "string",
          show_redirect_buttons |-> "boolean"],
         {"billing_request_id", "redirect_uri", "session_token"},
         [show_redirect_buttons |-> Bool(TRUE)])

GetBillingRequestTool ==
    Tool("get_billing_request", [billing_request_id |-> "string"],
         {"billing_request_id"}, <<>>)

ListBillingRequestsTool ==
    Tool("list_billing_requests",
         [limit |-> "number", status |-> "string", customer |-> "string"], {},
         [limit |-> Num(50)])

FulfilBillingRequestTool ==
    Tool("fulfil_billing_request", [billing_request_id |-> "string"],
         {"billing_request_id"}, <<>>)

ToolsWithoutFulfil ==
    <<ListCustomersTool, CreateCustomerTool, GetCustomerTool,
      ListCustomerBankAccountsTool, CreateRedirectFlowTool, ListPaymentsTool,
      CreateBillingRequestTool, CreateBillingRequestFlowTool, GetBillingRequestTool,
      ListBillingRequestsTool, ListBillingRequestsTool>>

\* const tools: Tool[] = [ ... ]
ToolList ==
    <<ListCustomersTool, CreateCustomerTool, GetCustomerTool,
      ListCustomerBankAccountsTool, CreateRedirectFlowTool, ListPaymentsTool,
      CreateBillingRequestTool, CreateBillingRequestFlowTool, GetBillingRequestTool,
      ListBillingRequestsTool, FulfilBillingRequestTool>>

\* The names of a tool list, and the definition a name has in it.
ToolNames(ts) == {ts[i].name : i \in DOMAIN ts}

ToolNamed(ts, name) == ts[CHOOSE i \in DOMAIN ts : ts[i].name = name]

(***************************************************************************)
(* request.params.arguments: undefined, or an object given by its          *)
(* properties.  Resources of an upstream body are property maps as well.   *)
(***************************************************************************)
NoArguments == [defined |-> FALSE, props |-> <<>>]

Arguments(props) == [defined |-> TRUE, props |-> props]

\* args?.k
Arg(args, k) ==
    IF args.defined /\ k \in DOMAIN args.props THEN args.props[k] ELSE Undefined

\* r.k for a resource r
Field(r, k) == IF k \in DOMAIN r THEN r[k] ELSE Undefined

\* r.payment_request?.k : the sub-object's fields are the properties
\* "payment_request.k" of r.
PaymentRequestField(r, k) ==
    IF Field(r, "payment_request").t \in {"undefined", "object_null"}
    THEN Undefined
    ELSE Field(r, "payment_request." \o k)

\* data[key] of a parsed body: absent, or the resource(s) under the key (a
\* single resource is a one-element sequence).
HasKey(data, key) == key \in DOMAIN data

(***************************************************************************)
(* Results and the catch block (index.ts 787-797).                         *)
(***************************************************************************)
\* { content: [{ type: 'text', text }] } : isError FALSE is the property
\* being absent.
TextResult(text) ==
    [content |-> <<[type |-> "text", text |-> text]>>, isError |-> FALSE]

CatchUnflagged(error) ==
    TextResult("Error: " \o (IF error.isErr THEN error.message ELSE "Unknown error occurred"))

CatchWithHint(error) ==
    [content |->
        <<[type |-> "text",
           text |-> "Error: "
                \o (IF error.isErr THEN error.message ELSE "Unknown error occurred")],
          [type |-> "text", text |-> "Check the GoCardless dashboard."]>>,
     isError |-> TRUE]

\* catch (error) { return { content: [...], isError: true } }
Catch(error) ==
    [content |->
        <<[type |-> "text",
           text |-> "Error: "
                \o (IF error.isErr THEN error.message ELSE "Unknown error occurred")]>>,
     isError |-> TRUE]

MissingTokenText ==
    "Error: GOCARDLESS_ACCESS_TOKEN environment variable is not set. Please configure your GoCardless access token."

\* What the synchronous part of a handler ends in: a returned result, a thrown
\* error, or the awaited fetch call.
Return(res) == [kind |-> "return", result |-> res, error |-> <<>>, call |-> <<>>]

Throw(msg) == [kind |-> "throw", result |-> <<>>, error |-> Thrown(msg), call |-> <<>>]

Await(call) == [kind |-> "await", result |-> <<>>, error |-> <<>>, call |-> call]

\* Reading a property of undefined.
TypeErrorReading(prop) ==
    "Cannot read properties of undefined (reading '" \o prop \o "')"

\* The character that starts a list entry (U+2022 in the source).
Bullet == "*"

\* xs.map(f).join(sep)
RECURSIVE MapJoin(_, _, _)
MapJoin(xs, f(_), sep) ==
    IF xs = <<>> THEN ""
    ELSE f(Head(xs)) \o (IF Tail(xs) = <<>> THEN "" ELSE sep) \o MapJoin(Tail(xs), f, sep)

\* The pairs ps followed by <<k, v>> when cond holds.
AddIf(ps, cond, k, v) == IF cond THEN Append(ps, <<k, v>>) ELSE ps

\* if (v && typeof v === 'string')
TruthyString(v) == Truthy(v) /\ TypeOf(v) = "string"

(***************************************************************************)
(* The cases of switch (name), index.ts 412-786.  For each tool: XStart is *)
(* the code up to the awaited makeGoCardlessRequest, XRender the code      *)
(* after it, given the parsed body.                                        *)
(***************************************************************************)
\* case 'list_customers' (413-433)
ListCustomersQuery(args) ==
    AddIf(AddIf(<<>>, Truthy(Arg(args, "limit")), "limit", ToStr(Arg(args, "limit"))),
          TruthyString(Arg(args, "after")), "after", ToStr(Arg(args, "after")))

ListCustomersStart(cfg, args) ==
    Await(FetchCall(cfg, "/customers?" \o QueryString(ListCustomersQuery(args)), NoOptions))

CustomerEntry(customer) ==
    Bullet \o " " \o ToStr(Field(customer, "given_name")) \o " "
        \o ToStr(Field(customer, "family_name"))
        \o " (" \o ToStr(Field(customer, "email")) \o ")\n"
        \o "  ID: " \o ToStr(Field(customer, "id")) \o "\n"
        \o "  Created: " \o ToStr(Field(customer, "created_at"))

ListCustomersRender(args, data) ==
    IF ~HasKey(data, "customers") THEN Throw(TypeErrorReading("length"))
    ELSE Return(TextResult(
            "Found " \o ToString(Len(data["customers"])) \o " customers:\n\n"
                \o MapJoin(data["customers"], CustomerEntry, "\n\n")))

\* case 'create_customer' (435-475)
CreateCustomerBody(args) ==
    LET base == <<<<"email", Arg(args, "email")>>,
                  <<"given_name", Arg(args, "given_name")>>,
                  <<"family_name", Arg(args, "family_name")>>>>
        withCompany ==
            AddIf(base, TruthyString(Arg(args, "company_name")),
                  "company_name", Arg(args, "company_name"))
        withAddress ==
            IF TruthyString(Arg(args, "address_line1"))
            THEN withCompany \o <<<<"address_line1", Arg(args, "address_line1")>>,
                                  <<"city", Arg(args, "city")>>,
                                  <<"postal_code", Arg(args, "postal_code")>>,
                                  <<"country_code", Arg(args, "country_code")>>>>
            ELSE withCompany
    IN  JsonStringify(<<<<"customers", ObjOf(withAddress)>>>>)

CreateCustomerStart(cfg, args) ==
    IF ~args.defined THEN Throw("Arguments required for create_customer")
    ELSE Await(FetchCall(cfg, "/customers", PostOptions(CreateCustomerBody(args))))

CreateCustomerRender(args, data) ==
    IF ~HasKey(data, "customers") THEN Throw(TypeErrorReading("given_name"))
    ELSE LET customer == data["customers"][1]
         IN  Return(TextResult(
                "Successfully created customer:\n\n"
                    \o "Name: " \o ToStr(Field(customer, "given_name")) \o " "
                    \o ToStr(Field(customer, "family_name")) \o "\n"
                    \o "Email: " \o ToStr(Field(customer, "email")) \o "\n"
                    \o "ID: " \o ToStr(Field(customer, "id")) \o "\n"
                    \o "Created: " \o ToStr(Field(customer, "created_at"))))

\* case 'get_customer' (477-497)
GetCustomerStartPosting(cfg, args) ==
    IF ~Truthy(Arg(args, "customer_id")) THEN Throw("customer_id is required")
    ELSE Await(FetchCall(cfg, "/customers/" \o ToStr(Arg(args, "customer_id")),
                         PostOptions(JsonStringify(<<>>))))

GetCustomerStart(cfg, args) ==
    IF ~Truthy(Arg(args, "customer_id")) THEN Throw("customer_id is required")
    ELSE Await(FetchCall(cfg, "/customers/" \o ToStr(Arg(args, "customer_id")), NoOptions))

\* A rendering that reads the customer through optional chaining.
GetCustomerRenderLenient(args, data) ==
    LET customer == IF HasKey(data, "customers") THEN data["customers"][1] ELSE <<>>
    IN  Return(TextResult(
            "Customer Details:\n\n"
                \o "Name: " \o ToStr(Field(customer, "given_name")) \o " "
                \o ToStr(Field(customer, "family_name")) \o "\n"
                \o "Email: " \o ToStr(Field(customer, "email")) \o "\n"
                \o "ID: " \o ToStr(Field(customer, "id")) \o "\n"
                \o "Created: " \o ToStr(Field(customer, "created_at")) \o "\n"
                \o "Language: " \o ToStr(Field(customer, "language")) \o "\n"
                \o "Metadata: " \o ToStr(JsonPretty(Field(customer, "metadata")))))

GetCustomerRender(args, data) ==
    IF ~HasKey(data, "customers") THEN Throw(TypeErrorReading("given_name"))
    ELSE LET customer == data["customers"][1]
         IN  Return(TextResult(
                "Customer Details:\n\n"
                    \o "Name: " \o ToStr(Field(customer, "given_name")) \o " "
                    \o ToStr(Field(customer, "family_name")) \o "\n"
                    \o "Email: " \o ToStr(Field(customer, "email")) \o "\n"
                    \o "ID: " \o ToStr(Field(customer, "id")) \o "\n"
                    \o "Created: " \o ToStr(Field(customer, "created_at")) \o "\n"
                    \o "Language: " \o ToStr(Field(customer, "language")) \o "\n"
                    \o "Metadata: " \o ToStr(JsonPretty(Field(customer, "metadata")))))

\* case 'list_customer_bank_accounts' (499-529)
ListCustomerBankAccountsStart(cfg, args) ==
    IF ~Truthy(Arg(args, "customer_id")) THEN Throw("customer_id is required")
    ELSE Await(FetchCall(cfg,
            "/customer_bank_accounts?customer=" \o ToStr(Arg(args, "customer_id")),
            NoOptions))

BankAccountEntry(account) ==
    Bullet \o " Account ending in " \o ToStr(Field(account, "account_number_ending")) \o "\n"
        \o "  ID: " \o ToStr(Field(account, "id")) \o "\n"
        \o "  Bank: " \o ToStr(Field(account, "bank_name")) \o "\n"
        \o "  Status: " \o (IF Truthy(Field(account, "enabled")) THEN "Active" ELSE "Inactive")

ListCustomerBankAccountsRender(args, data) ==
    IF ~HasKey(data, "customer_bank_accounts") THEN Throw(TypeErrorReading("length"))
    ELSE IF Len(data["customer_bank_accounts"]) = 0
    THEN Return(TextResult(
            "No bank accounts found for this customer. They may need to complete a redirect flow to add their bank details."))
    ELSE Return(TextResult(
            "Found " \o ToString(Len(data["customer_bank_accounts"])) \o " bank account(s):\n\n"
                \o MapJoin(data["customer_bank_accounts"], BankAccountEntry, "\n\n")))

\* case 'create_redirect_flow' (531-565)
CreateRedirectFlowBody(args) ==
    LET base == <<<<"description", Arg(args, "description")>>,
                  <<"session_token", Arg(args, "session_token")>>,
                  <<"success_redirect_url", Arg(args, "success_redirect_url")>>>>
        prefilled == Arg(args, "prefilled_customer")
    IN  JsonStringify(<<<<"redirect_flows",
            ObjOf(AddIf(base, Truthy(prefilled) /\ TypeOf(prefilled) = "object",
                        "prefilled_customer", prefilled))>>>>)

CreateRedirectFlowStart(cfg, args) ==
    IF ~args.defined THEN Throw("Arguments required for create_redirect_flow")
    ELSE Await(FetchCall(cfg, "/redirect_flows", PostOptions(CreateRedirectFlowBody(args))))

CreateRedirectFlowRender(args, data) ==
    IF ~HasKey(data, "redirect_flows") THEN Throw(TypeErrorReading("id"))
    ELSE LET redirectFlow == data["redirect_flows"][1]
         IN  Return(TextResult(
                "Successfully created redirect flow:\n\n"
                    \o "ID: " \o ToStr(Field(redirectFlow, "id")) \o "\n"
                    \o "Redirect URL: " \o ToStr(Field(redirectFlow, "redirect_url")) \o "\n\n"
                    \o "Send your customer to the redirect URL to collect their bank details. "
                    \o "After they complete the process, you'll need to complete the redirect flow "
                    \o "to create the mandate and customer bank account."))

\* case 'list_payments' (567-601)
ListPaymentsQuery(args) ==
    AddIf(AddIf(AddIf(<<>>,
                Truthy(Arg(args, "limit")), "limit", ToStr(Arg(args, "limit"))),
            TruthyString(Arg(args, "customer")), "customer", ToStr(Arg(args, "customer"))),
        TruthyString(Arg(args, "status")), "status", ToStr(Arg(args, "status")))

ListPaymentsStart(cfg, args) ==
    Await(FetchCall(cfg, "/payments?" \o QueryString(ListPaymentsQuery(args)), NoOptions))

PaymentEntry(payment) ==
    Bullet \o " Amount: " \o ToStr(Field(payment, "currency")) \o " "
        \o DivideBy100ToFixed2(Field(payment, "amount")) \o "\n"
        \o "  ID: " \o ToStr(Field(payment, "id")) \o "\n"
        \o "  Status: " \o ToStr(Field(payment, "status")) \o "\n"
        \o "  Created: " \o ToStr(Field(payment, "created_at")) \o "\n"
        \o "  Description: "
        \o ToStr(OrElse(Field(payment, "description"), Str("No description")))

ListPaymentsRender(args, data) ==
    IF ~HasKey(data, "payments") THEN Throw(TypeErrorReading("length"))
    ELSE IF Len(data["payments"]) = 0
    THEN Return(TextResult("No payments found matching the criteria."))
    ELSE Return(TextResult(
            "Found " \o ToString(Len(data["payments"])) \o " payment(s):\n\n"
                \o MapJoin(data["payments"], PaymentEntry, "\n\n")))

\* case 'create_billing_request' (603-658)
CreateBillingRequestBody(args) ==
    LET paymentRequest ==
            AddIf(<<<<"amount", Arg(args, "amount_cents")>>,
                    <<"currency", Arg(args, "currency")>>,
                    <<"description", Arg(args, "description")>>>>,
                  Truthy(Arg(args, "payment_reference")),
                  "reference", Arg(args, "payment_reference"))
        payer ==
            AddIf(<<<<"email", Arg(args, "customer_email")>>,
                    <<"given_name", Arg(args, "customer_given_name")>>,
                    <<"family_name", Arg(args, "customer_family_name")>>>>,
                  Truthy(Arg(args, "customer_company_name")),
                  "company_name", Arg(args, "customer_company_name"))
        mandateRequest ==
            AddIf(<<<<"currency", Arg(args, "currency")>>>>,
                  Truthy(Arg(args, "customer_email")), "payer", ObjOf(payer))
    IN  JsonStringify(<<<<"billing_requests",
            ObjOf(<<<<"purpose_code", Str("utility")>>,
                    <<"payment_request", ObjOf(paymentRequest)>>,
                    <<"mandate_request", ObjOf(mandateRequest)>>>>)>>>>)

CreateBillingRequestStart(cfg, args) ==
    IF ~args.defined THEN Throw("Arguments required for create_billing_request")
    ELSE Await(FetchCall(cfg, "/billing_requests",
                         PostOptions(CreateBillingRequestBody(args))))

CreateBillingRequestRender(args, data) ==
    IF ~HasKey(data, "billing_requests") THEN Throw(TypeErrorReading("id"))
    ELSE LET billingRequest == data["billing_requests"][1]
         IN  Return(TextResult(
                "Successfully created billing request:\n\n"
                    \o "ID: " \o ToStr(Field(billingRequest, "id")) \o "\n"
                    \o "Amount: " \o ToStr(Arg(args, "currency")) \o " "
                    \o DivideBy100ToFixed2(Arg(args, "amount_cents")) \o "\n"
                    \o "Status: " \o ToStr(Field(billingRequest, "status")) \o "\n"
                    \o "Description: " \o ToStr(Arg(args, "description")) \o "\n"
                    \o "Created: " \o ToStr(Field(billingRequest, "created_at")) \o "\n\n"
                    \o "Next step: Create a billing request flow to collect customer authorization."))

\* case 'create_billing_request_flow' (660-699)
CreateBillingRequestFlowBody(args) ==
    LET base == <<<<"redirect_uri", Arg(args, "redirect_uri")>>,
                  <<"links",
                    ObjOf(<<<<"billing_request", Arg(args, "billing_request_id")>>>>)>>>>
        withExit ==
            AddIf(base, Truthy(Arg(args, "exit_uri")), "exit_uri", Arg(args, "exit_uri"))
        withButtons ==
            AddIf(withExit, Arg(args, "show_redirect_buttons").t # "undefined",
                  "show_redirect_buttons", Arg(args, "show_redirect_buttons"))
    IN  JsonStringify(<<<<"billing_request_flows", ObjOf(withButtons)>>>>)

CreateBillingRequestFlowStart(cfg, args) ==
    IF ~args.defined THEN Throw("Arguments required for create_billing_request_flow")
    ELSE Await(FetchCall(cfg, "/billing_request_flows",
                         PostOptions(CreateBillingRequestFlowBody(args))))

CreateBillingRequestFlowRender(args, data) ==
    IF ~HasKey(data, "billing_request_flows") THEN Throw(TypeErrorReading("id"))
    ELSE LET flow == data["billing_request_flows"][1]
         IN  Return(TextResult(
                "Successfully created billing request flow:\n\n"
                    \o "Flow ID: " \o ToStr(Field(flow, "id")) \o "\n"
                    \o "Authorisation URL: " \o ToStr(Field(flow, "authorisation_url")) \o "\n"
                    \o "Expires: " \o ToStr(Field(flow, "expires_at")) \o "\n\n"
                    \o "Send your customer to the authorisation URL to complete payment setup. "
                    \o "After they complete the process, you can fulfil the billing request to create the payment."))

\* `${r.payment_request?.currency || 'N/A'} ${r.payment_request?.amount ?
\*   (r.payment_request.amount / 100).toFixed(2) : 'N/A'}` (714, 750)
BillingRequestAmountNoFallback(r) ==
    ToStr(PaymentRequestField(r, "currency")) \o " "
        \o DivideBy100ToFixed2(PaymentRequestField(r, "amount"))

BillingRequestAmount(r) ==
    ToStr(OrElse(PaymentRequestField(r, "currency"), Str("N/A"))) \o " "
        \o (IF Truthy(PaymentRequestField(r, "amount"))
            THEN DivideBy100ToFixed2(PaymentRequestField(r, "amount"))
            ELSE "N/A")

\* case 'get_billing_request' (701-723)
GetBillingRequestStart(cfg, args) ==
    IF ~Truthy(Arg(args, "billing_request_id")) THEN Throw("billing_request_id is required")
    ELSE Await(FetchCall(cfg,
            "/billing_requests/" \o ToStr(Arg(args, "billing_request_id")), NoOptions))

GetBillingRequestRender(args, data) ==
    IF ~HasKey(data, "billing_requests") THEN Throw(TypeErrorReading("id"))
    ELSE LET billingRequest == data["billing_requests"][1]
         IN  Return(TextResult(
                "Billing Request Details:\n\n"
                    \o "ID: " \o ToStr(Field(billingRequest, "id")) \o "\n"
                    \o "Status: " \o ToStr(Field(billingRequest, "status")) \o "\n"
                    \o "Amount: " \o BillingRequestAmount(billingRequest) \o "\n"
                    \o "Description: "
                    \o ToStr(OrElse(PaymentRequestField(billingRequest, "description"),
                                    Str("No description"))) \o "\n"
                    \o "Created: " \o ToStr(Field(billingRequest, "created_at")) \o "\n"
                    \o "Purpose: " \o ToStr(Field(billingRequest, "purpose_code")) \o "\n"
                    \o "Reference: "
                    \o ToStr(OrElse(PaymentRequestField(billingRequest, "reference"),
                                    Str("None"))) \o "\n"
                    \o "Metadata: " \o ToStr(JsonPretty(Field(billingRequest, "metadata")))))

\* case 'list_billing_requests' (725-759)
ListBillingRequestsQuery(args) ==
    AddIf(AddIf(AddIf(<<>>,
                Truthy(Arg(args, "limit")), "limit", ToStr(Arg(args, "limit"))),
            TruthyString(Arg(args, "status")), "status", ToStr(Arg(args, "status"))),
        TruthyString(Arg(args, "customer")), "customer", ToStr(Arg(args, "customer")))

ListBillingRequestsStart(cfg, args) ==
    Await(FetchCall(cfg, "/billing_requests?" \o QueryString(ListBillingRequestsQuery(args)),
                    NoOptions))

BillingRequestEntry(req) ==
    Bullet \o " Amount: " \o BillingRequestAmount(req) \o "\n"
        \o "  ID: " \o ToStr(Field(req, "id")) \o "\n"
        \o "  Status: " \o ToStr(Field(req, "status")) \o "\n"
        \o "  Created: " \o ToStr(Field(req, "created_at")) \o "\n"
        \o "  Description: "
        \o ToStr(OrElse(PaymentRequestField(req, "description"), Str("No description")))

ListBillingRequestsRenderNoEmptyCase(args, data) ==
    IF ~HasKey(data, "billing_requests") THEN Throw(TypeErrorReading("length"))
    ELSE Return(TextResult(
            "Found " \o ToString(Len(data["billing_requests"])) \o " billing request(s):\n\n"
                \o MapJoin(data["billing_requests"], BillingRequestEntry, "\n\n")))

ListBillingRequestsRender(args, data) ==
    IF ~HasKey(data, "billing_requests") THEN Throw(TypeErrorReading("length"))
    ELSE IF Len(data["billing_requests"]) = 0
    THEN Return(TextResult("No billing requests found matching the criteria."))
    ELSE Return(TextResult(
            "Found " \o ToString(Len(data["billing_requests"])) \o " billing request(s):\n\n"
                \o MapJoin(data["billing_requests"], BillingRequestEntry, "\n\n")))

\* case 'fulfil_billing_request' (761-782)
FulfilBillingRequestStartUnchecked(cfg, args) ==
    Await(FetchCall(cfg,
            "/billing_requests/" \o ToStr(Arg(args, "billing_request_id"))
                \o "/actions/fulfil",
            PostOptions(JsonStringify(<<>>))))

FulfilBillingRequestStart(cfg, args) ==
    IF ~Truthy(Arg(args, "billing_request_id")) THEN Throw("billing_request_id is required")
    ELSE Await(FetchCall(cfg,
            "/billing_requests/" \o ToStr(Arg(args, "billing_request_id"))
                \o "/actions/fulfil",
            PostOptions(JsonStringify(<<>>))))

FulfilBillingRequestRender(args, data) ==
    IF ~HasKey(data, "billing_requests") THEN Throw(TypeErrorReading("id"))
    ELSE LET billingRequest == data["billing_requests"][1]
         IN  Return(TextResult(
                "Successfully fulfilled billing request:\n\n"
                    \o "ID: " \o ToStr(Field(billingRequest, "id")) \o "\n"
                    \o "Status: " \o ToStr(Field(billingRequest, "status")) \o "\n"
                    \o "Payment created: "
                    \o (IF Field(billingRequest, "status") = Str("fulfilled")
                        THEN "Yes" ELSE "No") \o "\n\n"
                    \o "The billing request has been processed and payment collection has been initiated."))

UnknownToolUnnamed(name) == Throw("Unknown tool")

\* default: throw new Error(`Unknown tool: ${name}`) (784-785)
UnknownTool(name) == Throw("Unknown tool: " \o name)

SwitchStartWithoutFulfil(cfg, name, args) ==
    CASE name = "list_customers" -> ListCustomersStart(cfg, args)
      [] name = "create_customer" -> CreateCustomerStart(cfg, args)
      [] name = "get_customer" -> GetCustomerStart(cfg, args)
      [] name = "list_customer_bank_accounts" -> ListCustomerBankAccountsStart(cfg, args)
      [] name = "create_redirect_flow" -> CreateRedirectFlowStart(cfg, args)
      [] name = "list_payments" -> ListPaymentsStart(cfg, args)
      [] name = "create_billing_request" -> CreateBillingRequestStart(cfg, args)
      [] name = "create_billing_request_flow" -> CreateBillingRequestFlowStart(cfg, args)
      [] name = "get_billing_request" -> GetBillingRequestStart(cfg, args)
      [] name = "list_billing_requests" -> ListBillingRequestsStart(cfg, args)
      [] OTHER -> UnknownTool(name)

\* switch (name) up to the await.
SwitchStart(cfg, name, args) ==
    CASE name = "list_customers" -> ListCustomersStart(cfg, args)
      [] name = "create_customer" -> CreateCustomerStart(cfg, args)
      [] name = "get_customer" -> GetCustomerStart(cfg, args)
      [] name = "list_customer_bank_accounts" -> ListCustomerBankAccountsStart(cfg, args)
      [] name = "create_redirect_flow" -> CreateRedirectFlowStart(cfg, args)
      [] name = "list_payments" -> ListPaymentsStart(cfg, args)
      [] name = "create_billing_request" -> CreateBillingRequestStart(cfg, args)
      [] name = "create_billing_request_flow" -> CreateBillingRequestFlowStart(cfg, args)
      [] name = "get_billing_request" -> GetBillingRequestStart(cfg, args)
      [] name = "list_billing_requests" -> ListBillingRequestsStart(cfg, args)
      [] name = "fulfil_billing_request" -> FulfilBillingRequestStart(cfg, args)
      [] OTHER -> UnknownTool(name)

\* switch (name) after the await, given the parsed body.
SwitchRender(name, args, data) ==
    CASE name = "list_customers" -> ListCustomersRender(args, data)
      [] name = "create_customer" -> CreateCustomerRender(args, data)
      [] name = "get_customer" -> GetCustomerRender(args, data)
      [] name = "list_customer_bank_accounts" -> ListCustomerBankAccountsRender(args, data)
      [] name = "create_redirect_flow" -> CreateRedirectFlowRender(args, data)
      [] name = "list_payments" -> ListPaymentsRender(args, data)
      [] name = "create_billing_request" -> CreateBillingRequestRender(args, data)
      [] name = "create_billing_request_flow" -> CreateBillingRequestFlowRender(args, data)
      [] name = "get_billing_request" -> GetBillingRequestRender(args, data)
      [] name = "list_billing_requests" -> ListBillingRequestsRender(args, data)
      [] OTHER -> FulfilBillingRequestRender(args, data)

HandlerStartTokenCheckFlagged(cfg, name, args) ==
    IF cfg.accessToken = "" THEN Throw(MissingTokenText)
    ELSE SwitchStart(cfg, name, args)

HandlerStartLookupFirst(cfg, name, args) ==
    IF name \notin ToolNames(ToolList) THEN UnknownTool(name)
    ELSE IF cfg.accessToken = "" THEN Return(TextResult(MissingTokenText))
    ELSE SwitchStart(cfg, name, args)

\* The call-tool handler (396-798) up to its first await or its end: the
\* access-token check, then the switch.
HandlerStart(cfg, name, args) ==
    IF cfg.accessToken = "" THEN Return(TextResult(MissingTokenText))
    ELSE SwitchStart(cfg, name, args)

HandlerResumeRetrying(name, args, call, o) ==
    LET s == AdapterSettles(o)
    IN  IF s.threw THEN Await(call) ELSE SwitchRender(name, args, s.data)

\* The call-tool handler resumed when the awaited fetch call settles with o.
HandlerResume(name, args, call, o) ==
    LET s == AdapterSettles(o)
    IN  IF s.threw THEN [kind |-> "throw", result |-> <<>>, error |-> s.error, call |-> <<>>]
        ELSE SwitchRender(name, args, s.data)

\* The result the handler returns for a step that did not suspend: the
\* returned value, or the catch block's value for a thrown error.
ResultOf(step) == IF step.kind = "return" THEN step.result ELSE Catch(step.error)

(***************************************************************************)
(* The six-tool variant of the server (unnamed/part_001).  Its             *)
(* configuration, adapter, catch block and the six cases of its switch are *)
(* the text of index.ts line for line; its registry and its switch end     *)
(* after list_payments.                                                    *)
(***************************************************************************)
\* const tools (part_001 81-232)
SixToolList ==
    <<ListCustomersTool, CreateCustomerTool, GetCustomerTool,
      ListCustomerBankAccountsTool, CreateRedirectFlowTool, ListPaymentsTool>>

\* switch (name) up to the await (part_001 279-471).
SixSwitchStart(cfg, name, args) ==
    CASE name = "list_customers" -> ListCustomersStart(cfg, args)
      [] name = "create_customer" -> CreateCustomerStart(cfg, args)
      [] name = "get_customer" -> GetCustomerStart(cfg, args)
      [] name = "list_customer_bank_accounts" -> ListCustomerBankAccountsStart(cfg, args)
      [] name = "create_redirect_flow" -> CreateRedirectFlowStart(cfg, args)
      [] name = "list_payments" -> ListPaymentsStart(cfg, args)
      [] OTHER -> UnknownTool(name)

\* A variant whose list_customers has an empty-list case of its own.
SixSwitchRenderEmptyChecked(name, args, data) ==
    IF name = "list_customers" /\ HasKey(data, "customers") /\ Len(data["customers"]) = 0
    THEN Return(TextResult("No customers found."))
    ELSE SwitchRender(name, args, data)

\* switch (name) after the await: only the six cases suspend.
SixSwitchRender(name, args, data) ==
    CASE name = "list_customers" -> ListCustomersRender(args, data)
      [] name = "create_customer" -> CreateCustomerRender(args, data)
      [] name = "get_customer" -> GetCustomerRender(args, data)
      [] name = "list_customer_bank_accounts" -> ListCustomerBankAccountsRender(args, data)
      [] name = "create_redirect_flow" -> CreateRedirectFlowRender(args, data)
      [] OTHER -> ListPaymentsRender(args, data)

\* The call-tool handler of the variant (part_001 263-484).
SixHandlerStart(cfg, name, args) ==
    IF cfg.accessToken = "" THEN Return(TextResult(MissingTokenText))
    ELSE SixSwitchStart(cfg, name, args)

SixHandlerResume(name, args, call, o) ==
    LET s == AdapterSettles(o)
    IN  IF s.threw THEN [kind |-> "throw", result |-> <<>>, error |-> s.error, call |-> <<>>]
        ELSE SixSwitchRender(name, args, s.data)

(***************************************************************************)
(* Inputs: environments, tool names, argument objects, upstream outcomes.  *)
(***************************************************************************)
EnvironmentValues ==
    {Undefined, Str(""), Str("live"), Str("sandbox"), Str("production"), Str("Live")}

TokenValues == {Undefined, Str(""), Str("live_tok_A1")}

UnknownNames == {"delete_customer", "List_Customers"}

CallNames == ToolNames(ToolList) \cup UnknownNames

\* A key no schema declares.
UndeclaredKey == "page"

GoodValue(k) ==
    CASE k = "limit" -> Num(10)
      [] k = "after" -> Str("CU0001")
      [] k = "customer" -> Str("CU0001")
      [] k = "customer_id" -> Str("CU0001")
      [] k = "status" -> Str("cancelled")
      [] k \in {"email", "customer_email"} -> Str("ann@example.com")
      [] k \in {"given_name", "customer_given_name"} -> Str("Ann")
      [] k \in {"family_name", "customer_family_name"} -> Str("Lee")
      [] k \in {"company_name", "customer_company_name"} -> Str("Acme Ltd")
      [] k = "address_line1" -> Str("1 High St")
      [] k = "city" -> Str("London")
      [] k = "postal_code" -> Str("N1 9GU")
      [] k = "country_code" -> Str("GB")
      [] k = "description" -> Str("Monthly fee")
      [] k = "session_token" -> Str("sess_1")
      [] k = "success_redirect_url" -> Str("https://example.com/ok")
      [] k = "prefilled_customer" -> ObjOf(<<<<"email", Str("ann@example.com")>>>>)
      [] k = "amount_cents" -> Num(2999)
      [] k = "currency" -> Str("GBP")
      [] k = "payment_reference" -> Str("INV-7")
      [] k = "billing_request_id" -> Str("BRQ0001")
      [] k = "redirect_uri" -> Str("https://example.com/back")
      [] k = "exit_uri" -> Str("https://example.com/exit")
      [] k = "show_redirect_buttons" -> Bool(FALSE)
      [] OTHER -> Str("2")

\* Other values a caller may send for a property of the declared type: a
\* falsy one, one of another type, and a string with reserved characters.
OddValues(type) ==
    CASE type = "string" -> {Str(""), Num(7), Str("a b&c")}
      [] type = "number" -> {Num(0), Str("10")}
      [] type = "boolean" -> {Null, Str("yes")}
      [] type = "object" -> {Null, Str("x")}
      [] OTHER -> {}

\* The argument objects tried for a registered tool: its declared properties
\* and one undeclared key, with at most MaxAbsent of them left out, and at
\* most one property carrying an odd value; the empty object; no arguments.
ArgumentChoices(name) ==
    LET props == ToolNamed(ToolList, name).properties
        keys == (DOMAIN props) \cup {UndeclaredKey}
        domains == {D \in SUBSET keys : Cardinality(keys \ D) <= MaxAbsent} \cup {{}}
        plain == {[k \in D |-> GoodValue(k)] : D \in domains}
        odd == UNION {UNION {{[m EXCEPT ![k] = v] : v \in OddValues(props[k])}
                                : k \in (DOMAIN m) \ {UndeclaredKey}}
                        : m \in plain}
    IN  {NoArguments} \cup {Arguments(m) : m \in plain \cup odd}

UnknownToolArguments == {NoArguments, Arguments(<<>>), Arguments([customer_id |-> Str("CU0001")])}

CallArguments(name) ==
    IF name \in ToolNames(ToolList) THEN ArgumentChoices(name) ELSE UnknownToolArguments

\* Arguments holding exactly the required fields of the tool's schema.
ValidArguments(name) ==
    Arguments([k \in ToolNamed(ToolList, name).required |-> GoodValue(k)])

CreatedAt == Str("2024-05-01T10:00:00.000Z")

CustomerResources ==
    {[id |-> Str("CU0001"), given_name |-> Str("Ann"), family_name |-> Str("Lee"),
      email |-> Str("ann@example.com"), created_at |-> CreatedAt,
      language |-> Str("en"), metadata |-> Obj("{}")],
     [id |-> Str("CU0002"), given_name |-> Null, family_name |-> Null,
      email |-> Str("billing@acme.example"), created_at |-> CreatedAt,
      company_name |-> Str("Acme Ltd")]}

BankAccountResources ==
    {[id |-> Str("BA0001"), account_number_ending |-> Str("11"),
      bank_name |-> Str("BARCLAYS BANK PLC"), enabled |-> Bool(TRUE)],
     [id |-> Str("BA0002"), account_number_ending |-> Str("42"),
      bank_name |-> Str("MONZO BANK LTD"), enabled |-> Bool(FALSE)]}

RedirectFlowResources ==
    {[id |-> Str("RE0001"), redirect_url |-> Str("https://pay.gocardless.com/flow/RE0001")]}

PaymentResources ==
    {[id |-> Str("PM0001"), amount |-> Num(2999), currency |-> Str("GBP"),
      status |-> Str("paid_out"), created_at |-> CreatedAt,
      description |-> Str("Monthly fee")],
     [id |-> Str("PM0002"), amount |-> Num(5), currency |-> Str("EUR"),
      status |-> Str("pending_submission"), created_at |-> CreatedAt,
      description |-> Null]}

BillingRequestResources ==
    {("id" :> Str("BRQ0001")) @@ ("status" :> Str("pending"))
        @@ ("created_at" :> CreatedAt) @@ ("purpose_code" :> Str("utility"))
        @@ ("metadata" :> Obj("{}"))
        @@ ("payment_request" :> Obj("{}"))
        @@ ("payment_request.currency" :> Str("GBP"))
        @@ ("payment_request.amount" :> Num(2999))
        @@ ("payment_request.description" :> Str("Monthly fee")),
     [id |-> Str("BRQ0002"), status |-> Str("fulfilled"), created_at |-> CreatedAt,
      purpose_code |-> Str("utility")]}

BillingRequestFlowResources ==
    {[id |-> Str("BRF0001"),
      authorisation_url |-> Str("https://pay.gocardless.com/billing/static/flow?id=BRF0001"),
      expires_at |-> Str("2024-05-08T10:00:00.000Z")]}

\* Sequences of at most MaxItems resources of S.
ListsOf(S) == UNION {[1..n -> S] : n \in 0..MaxItems}

\* The parsed bodies of 2xx responses tried for a tool: the resource key
\* with well-formed content, or a body without the key.
BodyChoices(name) ==
    {<<>>} \cup
    CASE name = "list_customers" -> {[customers |-> l] : l \in ListsOf(CustomerResources)}
      [] name \in {"create_customer", "get_customer"} ->
            {[customers |-> <<r>>] : r \in CustomerResources}
      [] name = "list_customer_bank_accounts" ->
            {[customer_bank_accounts |-> l] : l \in ListsOf(BankAccountResources)}
      [] name = "create_redirect_flow" ->
            {[redirect_flows |-> <<r>>] : r \in RedirectFlowResources}
      [] name = "list_payments" -> {[payments |-> l] : l \in ListsOf(PaymentResources)}
      [] name = "create_billing_request_flow" ->
            {[billing_request_flows |-> <<r>>] : r \in BillingRequestFlowResources}
      [] name = "list_billing_requests" ->
            {[billing_requests |-> l] : l \in ListsOf(BillingRequestResources)}
      [] OTHER -> {[billing_requests |-> <<r>>] : r \in BillingRequestResources}

\* The outcomes tried for a fetch call.
OutcomeChoices(name, call) ==
    {Ok(d) : d \in BodyChoices(name)}
        \cup {NotOk(404, "Not Found", "{\"error\":\"not_found\"}"),
              NotOk(500, "Internal Server Error", ""),
              BadJson("invalid json response body at " \o call.url
                        \o " reason: Unexpected end of JSON input"),
              Rejected("request to " \o call.url
                        \o " failed, reason: connect ECONNREFUSED 127.0.0.1:443")}

(***************************************************************************)
(* The state machine.                                                      *)
(***************************************************************************)
Slots == {"r1"}

NoRequest == [method |-> "", name |-> "", arguments |-> NoArguments]

NoOutcome == [kind |-> "none", status |-> 0, statusText |-> "", text |-> "", data |-> <<>>]

NoResult == [content |-> <<>>, isError |-> FALSE]

\* The state after module load, for an environment of envs and the frames slots.
InitFrom(envs, slots) ==
    /\ env \in envs
    /\ GOCARDLESS_CONFIG = LoadConfig(env)
    /\ tools = ToolList
    /\ pc = [p \in slots |-> "idle"]
    /\ request = [p \in slots |-> NoRequest]
    /\ sent = [p \in slots |-> <<>>]
    /\ settled = [p \in slots |-> NoOutcome]
    /\ result = [p \in slots |-> NoResult]
    /\ listed = [p \in slots |-> <<>>]
    /\ running = TRUE

InitWith(slots) ==
    InitFrom([GOCARDLESS_ENVIRONMENT : EnvironmentValues,
              GOCARDLESS_ACCESS_TOKEN : TokenValues], slots)

Init == InitWith(Slots)

StartupLogWithToken(cfg) ==
    <<"GoCardless MCP server started successfully",
      "Environment: " \o cfg.environment,
      "Access token configured: " \o cfg.accessToken>>

\* The lines main() writes to stderr once the transport is connected
\* (809-811).
StartupLog(cfg) ==
    <<"GoCardless MCP server started successfully",
      "Environment: " \o cfg.environment,
      "Access token configured: " \o (IF cfg.accessToken # "" THEN "Yes" ELSE "No")>>

HandlerExitsOnError(step) == step.kind = "throw"

\* Whether the call-tool handler ends the process at the step it has come
\* to: neither the try block nor the catch block (787-797) calls
\* process.exit.
HandlerExits(step) == FALSE

\* server.setRequestHandler(ListToolsRequestSchema, ...) (386-390)
\* A list handler that hides the tools until a token is configured.
ListToolsNeedsToken(p) ==
    /\ running
    /\ pc[p] = "idle"
    /\ pc' = [pc EXCEPT ![p] = "done"]
    /\ request' = [request EXCEPT ![p] = [NoRequest EXCEPT !.method = "tools/list"]]
    /\ listed' = [listed EXCEPT ![p] =
                    IF GOCARDLESS_CONFIG.accessToken # "" THEN tools ELSE <<>>]
    /\ UNCHANGED <<env, GOCARDLESS_CONFIG, tools, sent, settled, result, running>>

\* A list handler that puts the registry in another order before returning it.
ListToolsReordering(p) ==
    /\ running
    /\ pc[p] = "idle"
    /\ pc' = [pc EXCEPT ![p] = "done"]
    /\ request' = [request EXCEPT ![p] = [NoRequest EXCEPT !.method = "tools/list"]]
    /\ tools' = [i \in 1..Len(tools) |-> tools[Len(tools) + 1 - i]]
    /\ listed' = [listed EXCEPT ![p] = tools']
    /\ UNCHANGED <<env, GOCARDLESS_CONFIG, sent, settled, result, running>>

ListTools(p) ==
    /\ running
    /\ pc[p] = "idle"
    /\ pc' = [pc EXCEPT ![p] = "done"]
    /\ request' = [request EXCEPT ![p] = [NoRequest EXCEPT !.method = "tools/list"]]
    /\ listed' = [listed EXCEPT ![p] = tools]
    /\ UNCHANGED <<env, GOCARDLESS_CONFIG, tools, sent, settled, result, running>>

\* server.setRequestHandler(CallToolRequestSchema, ...) (396-798), from the
\* request's arrival to the first await or to the returned result.
\* A handler that lets a billing request be fulfilled only after a frame has
\* returned from creating one.
CallToolLifecycleChecked(p, name, args) ==
    /\ running
    /\ pc[p] = "idle"
    /\ LET created == \E q \in DOMAIN pc : /\ pc[q] = "done"
                                           /\ request[q].name = "create_billing_request"
           step == IF name = "fulfil_billing_request" /\ ~created
                   THEN Throw("billing request has not been created")
                   ELSE HandlerStart(GOCARDLESS_CONFIG, name, args)
       IN  /\ running' = TRUE
           /\ request' = [request EXCEPT ![p] = [method |-> "tools/call", name |-> name, arguments |-> args]]
           /\ IF step.kind = "await"
              THEN /\ pc' = [pc EXCEPT ![p] = "awaiting"]
                   /\ sent' = [sent EXCEPT ![p] = <<step.call>>]
                   /\ UNCHANGED result
              ELSE /\ pc' = [pc EXCEPT ![p] = "done"]
                   /\ result' = [result EXCEPT ![p] = ResultOf(step)]
                   /\ UNCHANGED sent
    /\ UNCHANGED <<env, GOCARDLESS_CONFIG, tools, settled, listed>>

\* A handler that answers a repeated call from the result another frame
\* still holds for the same tool and arguments.
CallToolCached(p, name, args) ==
    /\ running
    /\ pc[p] = "idle"
    /\ LET step == HandlerStart(GOCARDLESS_CONFIG, name, args)
           hits == {q \in DOMAIN pc : /\ pc[q] = "done"
                                      /\ request[q].method = "tools/call"
                                      /\ request[q].name = name
                                      /\ request[q].arguments = args}
       IN  /\ running' = TRUE
           /\ request' = [request EXCEPT ![p] = [method |-> "tools/call", name |-> name, arguments |-> args]]
           /\ IF hits # {}
              THEN /\ pc' = [pc EXCEPT ![p] = "done"]
                   /\ result' = [result EXCEPT ![p] = result[CHOOSE q \in hits : TRUE]]
                   /\ UNCHANGED sent
              ELSE IF step.kind = "await"
              THEN /\ pc' = [pc EXCEPT ![p] = "awaiting"]
                   /\ sent' = [sent EXCEPT ![p] = <<step.call>>]
                   /\ UNCHANGED result
              ELSE /\ pc' = [pc EXCEPT ![p] = "done"]
                   /\ result' = [result EXCEPT ![p] = ResultOf(step)]
                   /\ UNCHANGED sent
    /\ UNCHANGED <<env, GOCARDLESS_CONFIG, tools, settled, listed>>

CallTool(p, name, args) ==
    /\ running
    /\ pc[p] = "idle"
    /\ LET step == HandlerStart(GOCARDLESS_CONFIG, name, args)
       IN  /\ running' = ~HandlerExits(step)
           /\ request' = [request EXCEPT
                            ![p] = [method |-> "tools/call", name |-> name, arguments |-> args]]
           /\ IF step.kind = "await"
              THEN /\ pc' = [pc EXCEPT ![p] = "awaiting"]
                   /\ sent' = [sent EXCEPT ![p] = <<step.call>>]
                   /\ UNCHANGED result
              ELSE /\ pc' = [pc EXCEPT ![p] = "done"]
                   /\ result' = [result EXCEPT ![p] = ResultOf(step)]
                   /\ UNCHANGED sent
    /\ UNCHANGED <<env, GOCARDLESS_CONFIG, tools, settled, listed>>

\* The awaited fetch of slot p settles with outcome o and the handler runs
\* to its end (69-74, then the rest of the case, or the catch block).
\* A handler that keeps the request it is serving in one place for all
\* invocations: on resumption it finds the request of the first frame that
\* is still awaiting.
SettleSharedRequest(p, o) ==
    /\ running
    /\ pc[p] = "awaiting"
    /\ LET q == CHOOSE q \in DOMAIN pc : pc[q] = "awaiting"
           call == sent[p][Len(sent[p])]
           step == HandlerResume(request[q].name, request[q].arguments, call, o)
       IN  /\ running' = TRUE
           /\ settled' = [settled EXCEPT ![p] = o]
           /\ pc' = [pc EXCEPT ![p] = "done"]
           /\ result' = [result EXCEPT ![p] = ResultOf(step)]
           /\ UNCHANGED sent
    /\ UNCHANGED <<env, GOCARDLESS_CONFIG, tools, request, listed>>

Settle(p, o) ==
    /\ running
    /\ pc[p] = "awaiting"
    /\ LET call == sent[p][Len(sent[p])]
           step == HandlerResume(request[p].name, request[p].arguments, call, o)
       IN  /\ running' = ~HandlerExits(step)
           /\ settled' = [settled EXCEPT ![p] = o]
           /\ IF step.kind = "await"
              THEN /\ sent' = [sent EXCEPT ![p] = Append(@, step.call)]
                   /\ UNCHANGED <<pc, result>>
              ELSE /\ pc' = [pc EXCEPT ![p] = "done"]
                   /\ result' = [result EXCEPT ![p] = ResultOf(step)]
                   /\ UNCHANGED sent
    /\ UNCHANGED <<env, GOCARDLESS_CONFIG, tools, request, listed>>

\* The transport writes the response of a finished request; the handler's
\* frame is gone and the slot takes the next request.
Respond(p) ==
    /\ running
    /\ pc[p] = "done"
    /\ pc' = [pc EXCEPT ![p] = "idle"]
    /\ request' = [request EXCEPT ![p] = NoRequest]
    /\ sent' = [sent EXCEPT ![p] = <<>>]
    /\ settled' = [settled EXCEPT ![p] = NoOutcome]
    /\ result' = [result EXCEPT ![p] = NoResult]
    /\ listed' = [listed EXCEPT ![p] = <<>>]
    /\ UNCHANGED <<env, GOCARDLESS_CONFIG, tools, running>>

\* process.on('SIGINT', ...) (815-818): process.exit(0); every handler frame
\* goes with the process.
Sigint ==
    /\ running
    /\ running' = FALSE
    /\ pc' = [p \in DOMAIN pc |-> "idle"]
    /\ request' = [p \in DOMAIN pc |-> NoRequest]
    /\ sent' = [p \in DOMAIN pc |-> <<>>]
    /\ settled' = [p \in DOMAIN pc |-> NoOutcome]
    /\ result' = [p \in DOMAIN pc |-> NoResult]
    /\ listed' = [p \in DOMAIN pc |-> <<>>]
    /\ UNCHANGED <<env, GOCARDLESS_CONFIG, tools>>

DoListTools == \E p \in DOMAIN pc : ListTools(p)

DoCallTool ==
    \E p \in DOMAIN pc :
        /\ pc[p] = "idle"
        /\ \E name \in CallNames : \E args \in CallArguments(name) : CallTool(p, name, args)

DoSettle ==
    \E p \in DOMAIN pc :
        /\ pc[p] = "awaiting"
        /\ \E o \in OutcomeChoices(request[p].name, sent[p][Len(sent[p])]) : Settle(p, o)

DoRespond == \E p \in DOMAIN pc : Respond(p)

Next == DoListTools \/ DoCallTool \/ DoSettle \/ DoRespond \/ Sigint

Spec == Init /\ [][Next]_vars

(***************************************************************************)
(* Amounts: list_payments and create_billing_request over every amount of  *)
(* minor units up to MaxAmount, in the response body (payment.amount) and  *)
(* in the arguments (amount_cents).                                        *)
(***************************************************************************)
MoneyAmounts == 0..MaxAmount \cup {2999}

MoneyCurrencies == {"GBP", "EUR"}

MoneyNames == {"list_payments", "create_billing_request"}

MoneyPayment(a, c) ==
    [id |-> Str("PM0001"), amount |-> Num(a), currency |-> Str(c),
     status |-> Str("paid_out"), created_at |-> CreatedAt,
     description |-> Str("Monthly fee")]

MoneyArguments(name) ==
    IF name = "list_payments" THEN {NoArguments}
    ELSE {Arguments([amount_cents |-> Num(a), currency |-> Str(c),
                     description |-> Str("Monthly fee")]) :
            a \in MoneyAmounts, c \in MoneyCurrencies}

MoneyOutcomes(name) ==
    IF name = "list_payments"
    THEN {Ok([payments |-> <<MoneyPayment(a, c)>>]) : a \in MoneyAmounts, c \in MoneyCurrencies}
    ELSE {Ok([billing_requests |-> <<r>>]) : r \in BillingRequestResources}

MoneyCallTool ==
    \E p \in DOMAIN pc :
        /\ pc[p] = "idle"
        /\ \E name \in MoneyNames : \E args \in MoneyArguments(name) : CallTool(p, name, args)

MoneySettle ==
    \E p \in DOMAIN pc :
        /\ pc[p] = "awaiting"
        /\ \E o \in MoneyOutcomes(request[p].name) : Settle(p, o)

NextMoney == MoneyCallTool \/ MoneySettle \/ DoRespond

SpecMoney == Init /\ [][NextMoney]_vars

(***************************************************************************)
(* The two variants side by side: one frame of the eleven-tool server and  *)
(* one of the six-tool server, started with the same environment.          *)
(***************************************************************************)
Eleven == "eleven"

Six == "six"

VariantNames == ToolNames(ToolList) \cup {"delete_customer"}

VariantArguments(name) ==
    IF name \in ToolNames(ToolList) THEN {NoArguments, ValidArguments(name)}
    ELSE {NoArguments}

InitVariants == InitWith({Eleven, Six})

\* The list-tools handler of the variant (part_001 253-257).
SixListTools(p) ==
    /\ running
    /\ pc[p] = "idle"
    /\ pc' = [pc EXCEPT ![p] = "done"]
    /\ request' = [request EXCEPT ![p] = [NoRequest EXCEPT !.method = "tools/list"]]
    /\ listed' = [listed EXCEPT ![p] = SixToolList]
    /\ UNCHANGED <<env, GOCARDLESS_CONFIG, tools, sent, settled, result, running>>

SixCallTool(p, name, args) ==
    /\ running
    /\ pc[p] = "idle"
    /\ LET step == SixHandlerStart(GOCARDLESS_CONFIG, name, args)
       IN  /\ request' = [request EXCEPT ![p] = [method |-> "tools/call", name |-> name, arguments |-> args]]
           /\ IF step.kind = "await"
              THEN /\ pc' = [pc EXCEPT ![p] = "awaiting"]
                   /\ sent' = [sent EXCEPT ![p] = <<step.call>>]
                   /\ UNCHANGED result
              ELSE /\ pc' = [pc EXCEPT ![p] = "done"]
                   /\ result' = [result EXCEPT ![p] = ResultOf(step)]
                   /\ UNCHANGED sent
    /\ UNCHANGED <<env, GOCARDLESS_CONFIG, tools, settled, listed, running>>

SixSettle(p, o) ==
    /\ running
    /\ pc[p] = "awaiting"
    /\ LET step == SixHandlerResume(request[p].name, request[p].arguments, sent[p][1], o)
       IN  /\ settled' = [settled EXCEPT ![p] = o]
           /\ pc' = [pc EXCEPT ![p] = "done"]
           /\ result' = [result EXCEPT ![p] = ResultOf(step)]
    /\ UNCHANGED <<env, GOCARDLESS_CONFIG, tools, request, sent, listed, running>>

ElevenListTools ==
    /\ pc[Eleven] = "idle"
    /\ ListTools(Eleven)

ElevenCallTool ==
    /\ pc[Eleven] = "idle"
    /\ \E name \in VariantNames : \E args \in VariantArguments(name) :
           CallTool(Eleven, name, args)

ElevenSettle ==
    /\ pc[Eleven] = "awaiting"
    /\ \E o \in OutcomeChoices(request[Eleven].name, sent[Eleven][1]) : Settle(Eleven, o)

DoSixListTools ==
    /\ pc[Six] = "idle"
    /\ SixListTools(Six)

DoSixCallTool ==
    /\ pc[Six] = "idle"
    /\ \E name \in VariantNames : \E args \in VariantArguments(name) :
           SixCallTool(Six, name, args)

DoSixSettle ==
    /\ pc[Six] = "awaiting"
    /\ \E o \in OutcomeChoices(request[Six].name, sent[Six][1]) : SixSettle(Six, o)

NextVariants ==
    \/ ElevenListTools \/ ElevenCallTool \/ ElevenSettle
    \/ DoSixListTools \/ DoSixCallTool \/ DoSixSettle

SpecVariants == InitVariants /\ [][NextVariants]_vars

(***************************************************************************)
(* Two tokens: the server started with one of two access tokens, under the *)
(* full set of calls and outcomes.                                         *)
(***************************************************************************)
TokenPair == {Str("live_tok_A1"), Str("sandbox_tok_B2")}

InitTokens ==
    InitFrom([GOCARDLESS_ENVIRONMENT : {Undefined, Str("live")},
              GOCARDLESS_ACCESS_TOKEN : TokenPair], Slots)

NextTokens == DoCallTool \/ DoSettle \/ DoRespond

SpecTokens == InitTokens /\ [][NextTokens]_vars

(***************************************************************************)
(* The adapter on its own: makeGoCardlessRequest(endpoint, options) called *)
(* with the options the handlers pass and with options that carry headers. *)
(* The request slot holds the call: the endpoint as its name, the headers  *)
(* of the options as its arguments.                                        *)
(***************************************************************************)
AdapterEndpoints == {"/customers?", "/billing_requests"}

CallerHeaders ==
    {<<>>,
     "Content-Type" :> "text/plain",
     "Authorization" :> "Bearer other_tok",
     "GoCardless-Version" :> "2020-01-01",
     "X-Request-Id" :> "req-1",
     ("Content-Type" :> "text/plain") @@ ("X-Request-Id" :> "req-1")}

AdapterOptions ==
    {[o EXCEPT !.headers = h] : o \in {NoOptions, PostOptions("{}")}, h \in CallerHeaders}

\* makeGoCardlessRequest up to its awaited fetch (56-67).
AdapterCall(p, endpoint, options) ==
    /\ running
    /\ pc[p] = "idle"
    /\ pc' = [pc EXCEPT ![p] = "awaiting"]
    /\ request' = [request EXCEPT ![p] =
                      [method |-> "makeGoCardlessRequest", name |-> endpoint,
                       arguments |-> Arguments(options.headers)]]
    /\ sent' = [sent EXCEPT ![p] = <<FetchCall(GOCARDLESS_CONFIG, endpoint, options)>>]
    /\ UNCHANGED <<env, GOCARDLESS_CONFIG, tools, settled, result, listed, running>>

\* makeGoCardlessRequest from the settled fetch to its return or throw
\* (69-74): the outcome goes to the adapter's caller.
AdapterReturn(p, o) ==
    /\ running
    /\ pc[p] = "awaiting"
    /\ pc' = [pc EXCEPT ![p] = "done"]
    /\ settled' = [settled EXCEPT ![p] = o]
    /\ UNCHANGED <<env, GOCARDLESS_CONFIG, tools, request, sent, result, listed, running>>

DoAdapterCall ==
    \E p \in DOMAIN pc :
        /\ pc[p] = "idle"
        /\ \E endpoint \in AdapterEndpoints : \E options \in AdapterOptions :
               AdapterCall(p, endpoint, options)

DoAdapterReturn ==
    \E p \in DOMAIN pc :
        /\ pc[p] = "awaiting"
        /\ \E o \in {Ok(<<>>), NotOk(500, "Internal Server Error", "")} : AdapterReturn(p, o)

NextAdapter == DoAdapterCall \/ DoAdapterReturn

SpecAdapter == Init /\ [][NextAdapter]_vars

(***************************************************************************)
(* The billing-request lifecycle: up to three calls of the four tools that *)
(* create, open, read and fulfil a billing request, in any order and       *)
(* interleaving, each with valid arguments.  No frame is released, so a    *)
(* state holds every call handled so far.                                  *)
(***************************************************************************)
LifecycleSlots == {"r1", "r2", "r3"}

LifecycleNames ==
    {"create_billing_request", "create_billing_request_flow", "get_billing_request",
     "fulfil_billing_request"}

LifecycleOutcomes(name) ==
    {Ok(d) : d \in BodyChoices(name) \ {<<>>}}
        \cup {NotOk(404, "Not Found", "{\"error\":\"not_found\"}")}

InitLifecycle == InitWith(LifecycleSlots)

LifecycleCallTool ==
    \E p \in DOMAIN pc :
        /\ pc[p] = "idle"
        /\ \E name \in LifecycleNames : CallTool(p, name, ValidArguments(name))

LifecycleSettle ==
    \E p \in DOMAIN pc :
        /\ pc[p] = "awaiting"
        /\ \E o \in LifecycleOutcomes(request[p].name) : Settle(p, o)

NextLifecycle == LifecycleCallTool \/ LifecycleSettle

SpecLifecycle == InitLifecycle /\ [][NextLifecycle]_vars

(***************************************************************************)
(* Two requests in flight at once: the handlers are async functions, so a  *)
(* second request is taken up while the first awaits its fetch.  The same  *)
(* actions, on two slots and a smaller set of inputs.                      *)
(***************************************************************************)
PairSlots == {"r1", "r2"}

PairNames == {"list_payments", "get_customer", "delete_customer"}

PairArguments(name) ==
    CASE name = "list_payments" ->
            {NoArguments, Arguments([limit |-> Num(10)]),
             Arguments([customer |-> Str("CU0001"), status |-> Str("cancelled")])}
      [] name = "get_customer" ->
            {Arguments(<<>>), Arguments([customer_id |-> Str("CU0001")])}
      [] OTHER -> {NoArguments}

InitPair == InitWith(PairSlots)

PairCallTool ==
    \E p \in DOMAIN pc :
        /\ pc[p] = "idle"
        /\ \E name \in PairNames : \E args \in PairArguments(name) : CallTool(p, name, args)

NextPair == DoListTools \/ PairCallTool \/ DoSettle \/ DoRespond \/ Sigint

SpecPair == InitPair /\ [][NextPair]_vars

(***************************************************************************)
(* Properties.                                                             *)
(***************************************************************************)
\* The slots holding a call-tool request that has been taken up.
Calls == {p \in DOMAIN pc : request[p].method = "tools/call" /\ pc[p] # "idle"}

\* The slots whose call-tool request has returned its result.
Returned == {p \in Calls : pc[p] = "done"}

TokenConfigured == GOCARDLESS_CONFIG.accessToken # ""

TextOf(p) == result[p].content[1].text

\* The result of slot p is a ToolResult with exactly one text block.
IsToolResult(p) ==
    /\ Len(result[p].content) = 1
    /\ result[p].content[1].type = "text"
    /\ result[p].isError \in BOOLEAN

\* The arguments lack a field of the tool's required set.
LacksRequired(name, args) ==
    \E k \in ToolNamed(tools, name).required :
        ~args.defined \/ k \notin DOMAIN args.props

\* C1: with a configured token, a call of a registered tool whose arguments
\* lack a field of the schema's required set returns an error-flagged result
\* and issues no fetch.
C1_MissingRequiredFailsBeforeFetch ==
    \A p \in Calls :
        (/\ TokenConfigured
         /\ request[p].name \in ToolNames(tools)
         /\ LacksRequired(request[p].name, request[p].arguments))
        => /\ pc[p] = "done"
           /\ result[p].isError
           /\ sent[p] = <<>>

\* C2: with an empty access token, a call of any of the eleven tools with
\* any arguments returns a result that is not error-flagged, whose one text
\* block says that GOCARDLESS_ACCESS_TOKEN is not set, and issues no fetch.
C2_MissingTokenIsSuccessShaped ==
    \A p \in Calls :
        (GOCARDLESS_CONFIG.accessToken = "" /\ request[p].name \in ToolNames(tools))
        => /\ pc[p] = "done"
           /\ IsToolResult(p)
           /\ ~result[p].isError
           /\ Contains(TextOf(p), "GOCARDLESS_ACCESS_TOKEN environment variable is not set")
           /\ sent[p] = <<>>

C2_Witness ==
    \E p \in Returned :
        /\ GOCARDLESS_CONFIG.accessToken = ""
        /\ request[p].name = "fulfil_billing_request"
        /\ request[p].arguments.defined
        /\ "billing_request_id" \in DOMAIN request[p].arguments.props

\* C3 as stated: a call with a name that is not registered returns an
\* error-flagged result whose text contains the name, and issues no fetch.
C3_UnknownToolAlwaysFlagged ==
    \A p \in Calls :
        request[p].name \notin ToolNames(tools)
        => /\ pc[p] = "done"
           /\ result[p].isError
           /\ Contains(TextOf(p), request[p].name)
           /\ sent[p] = <<>>

\* C3 amended: with a configured access token, a call with a name that is
\* not registered returns an error-flagged result whose text is
\* "Error: Unknown tool: <name>", and issues no fetch.
C3_UnknownToolFlaggedWithToken ==
    \A p \in Calls :
        (TokenConfigured /\ request[p].name \notin ToolNames(tools))
        => /\ pc[p] = "done"
           /\ result[p].isError
           /\ Contains(TextOf(p), request[p].name)
           /\ TextOf(p) = "Error: Unknown tool: " \o request[p].name
           /\ sent[p] = <<>>

C3_Witness ==
    \E p \in Returned :
        /\ TokenConfigured
        /\ request[p].name = "delete_customer"
        /\ result[p].isError

\* The message of the failure a returned call ended in, where it ended in
\* one: the handler's own argument check, the unknown-tool default, a
\* response that is not ok, a rejected fetch.  "" where none applies.
FailureMessage(p) ==
    LET name == request[p].name
        args == request[p].arguments
    IN  CASE ~TokenConfigured -> ""
          [] name \notin ToolNames(tools) -> "Unknown tool: " \o name
          [] /\ name \in {"get_customer", "list_customer_bank_accounts"}
             /\ ~Truthy(Arg(args, "customer_id")) -> "customer_id is required"
          [] /\ name \in {"get_billing_request", "fulfil_billing_request"}
             /\ ~Truthy(Arg(args, "billing_request_id")) -> "billing_request_id is required"
          [] /\ name \in {"create_customer", "create_redirect_flow",
                          "create_billing_request", "create_billing_request_flow"}
             /\ ~args.defined -> "Arguments required for " \o name
          [] settled[p].kind = "not_ok" ->
                "GoCardless API error: " \o ToString(settled[p].status) \o " "
                    \o settled[p].statusText \o "\n" \o settled[p].text
          [] settled[p].kind = "rejected" -> settled[p].text
          [] OTHER -> ""

C5_ElevenDistinctTools ==
    \A p \in DOMAIN pc :
        (request[p].method = "tools/list" /\ pc[p] = "done")
        => /\ Len(listed[p]) = 11
           /\ {listed[p][i].name : i \in DOMAIN listed[p]} =
                {"list_customers", "create_customer", "get_customer",
                 "list_customer_bank_accounts", "create_redirect_flow", "list_payments",
                 "create_billing_request", "create_billing_request_flow",
                 "get_billing_request", "list_billing_requests", "fulfil_billing_request"}
           /\ \A i, j \in DOMAIN listed[p] :
                i # j => listed[p][i].name # listed[p][j].name

C5_Witness ==
    \E p \in DOMAIN pc :
        /\ request[p].method = "tools/list"
        /\ pc[p] = "done"
        /\ Len(listed[p]) > 0

\* The handler's own argument check of a registered tool passes.
ArgumentCheckPasses(name, args) ==
    CASE name \in {"get_customer", "list_customer_bank_accounts"} ->
            Truthy(Arg(args, "customer_id"))
      [] name \in {"get_billing_request", "fulfil_billing_request"} ->
            Truthy(Arg(args, "billing_request_id"))
      [] name \in {"create_customer", "create_redirect_flow",
                   "create_billing_request", "create_billing_request_flow"} -> args.defined
      [] OTHER -> TRUE

\* C6: a call issues at most one fetch; exactly one when the token is
\* configured, the tool is registered and its argument check passes; and
\* after a response that is not ok or a failed fetch the call has returned
\* without a second fetch.
C6_AtMostOneFetch ==
    \A p \in DOMAIN pc :
        /\ Len(sent[p]) <= 1
        /\ (/\ p \in Calls
            /\ TokenConfigured
            /\ request[p].name \in ToolNames(tools)
            /\ ArgumentCheckPasses(request[p].name, request[p].arguments))
            => Len(sent[p]) = 1
        /\ settled[p].kind \in {"not_ok", "rejected", "bad_json"}
            => pc[p] = "done" /\ Len(sent[p]) = 1

C6_Witness ==
    \E p \in Returned :
        /\ settled[p].kind = "not_ok"
        /\ settled[p].status = 500
        /\ Len(sent[p]) = 1

\* C7: after a response that is not ok the call returns an error-flagged
\* result with the text "Error: GoCardless API error: <status>
\* <statusText>\n<body>"; for get_customer and a 404 the text contains 404.
C7_UpstreamErrorText ==
    \A p \in DOMAIN pc :
        settled[p].kind = "not_ok"
        => /\ pc[p] = "done"
           /\ result[p].isError
           /\ TextOf(p) = "Error: GoCardless API error: " \o ToString(settled[p].status)
                            \o " " \o settled[p].statusText \o "\n" \o settled[p].text
           /\ Contains(TextOf(p), ToString(settled[p].status))
           /\ Contains(TextOf(p), settled[p].statusText)
           /\ Contains(TextOf(p), settled[p].text)
           /\ (request[p].name = "get_customer" /\ settled[p].status = 404)
                => Contains(TextOf(p), "404")

C7_Witness ==
    \E p \in Returned :
        /\ request[p].name = "get_customer"
        /\ settled[p].kind = "not_ok"
        /\ settled[p].status = 404
        /\ settled[p].text = "{\"error\":\"not_found\"}"

\* C8: a fetch goes to the live host exactly when GOCARDLESS_ENVIRONMENT is
\* the string live; for sandbox, production, the empty string, an unset
\* variable and any other string it goes to the sandbox host.
C8_LiveHostOnlyForLive ==
    /\ getApiBaseUrl(GOCARDLESS_CONFIG) =
            (IF env.GOCARDLESS_ENVIRONMENT = Str("live")
             THEN "https://api.gocardless.com"
             ELSE "https://api-sandbox.gocardless.com")
    /\ \A p \in DOMAIN pc : \A i \in DOMAIN sent[p] :
        IF env.GOCARDLESS_ENVIRONMENT = Str("live")
        THEN StartsWith(sent[p][i].url, "https://api.gocardless.com/")
        ELSE StartsWith(sent[p][i].url, "https://api-sandbox.gocardless.com/")

C8_Witness ==
    \E p \in DOMAIN pc :
        /\ env.GOCARDLESS_ENVIRONMENT = Str("production")
        /\ Len(sent[p]) = 1
        /\ StartsWith(sent[p][1].url, "https://api-sandbox.gocardless.com/")

\* A 2xx body whose list under key is present and empty.
EmptyList(p, key) ==
    /\ settled[p].kind = "ok"
    /\ HasKey(settled[p].data, key)
    /\ Len(settled[p].data[key]) = 0

\* C9: list_billing_requests with zero billing requests in the response
\* returns a result that is not error-flagged, with the text "No billing
\* requests found matching the criteria." and no "Found 0" enumeration.
C9_EmptyBillingRequests ==
    \A p \in DOMAIN pc :
        (request[p].name = "list_billing_requests" /\ EmptyList(p, "billing_requests"))
        => /\ pc[p] = "done"
           /\ ~result[p].isError
           /\ TextOf(p) = "No billing requests found matching the criteria."
           /\ ~StartsWith(TextOf(p), "Found 0")

C9_Witness ==
    \E p \in Returned :
        /\ request[p].name = "list_billing_requests"
        /\ EmptyList(p, "billing_requests")

\* C10: list_customers, list_payments and list_billing_requests, given a
\* response with zero items, render a fixed "No ... found" sentence and
\* never a "Found 0 ..." header.
C10_EmptyListsRenderNoneFound ==
    \A p \in DOMAIN pc :
        (\/ (request[p].name = "list_customers" /\ EmptyList(p, "customers"))
         \/ (request[p].name = "list_payments" /\ EmptyList(p, "payments"))
         \/ (request[p].name = "list_billing_requests" /\ EmptyList(p, "billing_requests")))
        => /\ pc[p] = "done"
           /\ StartsWith(TextOf(p), "No ")
           /\ Contains(TextOf(p), " found")
           /\ ~StartsWith(TextOf(p), "Found 0")

(***************************************************************************)
(* Repetition, rendering and the shape of results                          *)
(***************************************************************************)
\* The slots holding a list_payments call.
PaymentCalls == {p \in Calls : request[p].name = "list_payments"}

\* C11: with a configured token, each of two list_payments calls with
\* identical arguments issues a fetch of its own, exactly one, whatever the
\* other call has left behind; and when both have returned on identical
\* upstream responses, their results are identical.
C11_RepeatedListPayments ==
    TokenConfigured =>
        \A p \in PaymentCalls : \A q \in PaymentCalls \ {p} :
            request[p].arguments = request[q].arguments =>
                /\ Len(sent[p]) = 1
                /\ sent[p] = sent[q]
                /\ (pc[p] = "done" /\ pc[q] = "done" /\ settled[p] = settled[q])
                       => result[p] = result[q]

C11_Witness ==
    /\ TokenConfigured
    /\ PaymentCalls = PairSlots
    /\ request["r1"].arguments = request["r2"].arguments
    /\ \A p \in PairSlots : pc[p] = "done" /\ Len(sent[p]) = 1
    /\ settled["r1"] = settled["r2"]
    /\ settled["r1"].kind = "ok"
    /\ HasKey(settled["r1"].data, "payments")
    /\ Len(settled["r1"].data.payments) > 0
    /\ result["r1"] = result["r2"]

\* Two decimal digits of n in 0..99, and floor(a/100) "." two-digit (a mod 100).
TwoDigits(n) == Digits[(n \div 10) + 1] \o Digits[(n % 10) + 1]

Expected(a) == ToString(a \div 100) \o "." \o TwoDigits(a % 100)

\* The amount line a returned call must show: of the payment in the response
\* for list_payments, of the arguments for create_billing_request.
ShownAmount(p) ==
    IF request[p].name = "list_payments"
    THEN [a |-> settled[p].data.payments[1].amount.n,
          c |-> settled[p].data.payments[1].currency.s]
    ELSE [a |-> request[p].arguments.props.amount_cents.n,
          c |-> request[p].arguments.props.currency.s]

\* The returned calls that rendered an amount.
Rendered ==
    {p \in Returned : /\ request[p].name \in MoneyNames
                      /\ settled[p].kind = "ok"
                      /\ ~result[p].isError}

\* C12: list_payments and create_billing_request render an amount of a minor
\* units in currency c as c, a space, floor(a/100), ".", and the two digits
\* of a mod 100: 2999 GBP is "GBP 29.99".
C12_AmountRendering ==
    \A p \in Rendered :
        LET m == ShownAmount(p)
        IN  /\ Contains(TextOf(p), "Amount: " \o m.c \o " " \o Expected(m.a) \o "\n")
            /\ (m.a = 2999 /\ m.c = "GBP") => Contains(TextOf(p), "Amount: GBP 29.99\n")

C12_Witness ==
    \E p \in Rendered :
        /\ request[p].name = "list_payments"
        /\ ShownAmount(p) = [a |-> 2999, c |-> "GBP"]
        /\ Contains(TextOf(p), "GBP 29.99")

\* C13: every result a call-tool request has returned, on every path, has a
\* content sequence of length exactly one whose single block has type "text".
C13_OneTextBlock ==
    \A p \in Returned :
        /\ Len(result[p].content) = 1
        /\ result[p].content[1].type = "text"

C13_Witness ==
    \E p \in Returned :
        /\ settled[p].kind = "not_ok"
        /\ result[p].isError
        /\ Len(result[p].content) = 1

(***************************************************************************)
(* The server across invocations                                           *)
(***************************************************************************)
\* The frame of slot q is left as it is by a step.
UnchangedFrame(q) ==
    /\ pc'[q] = pc[q]
    /\ request'[q] = request[q]
    /\ sent'[q] = sent[q]
    /\ settled'[q] = settled[q]
    /\ result'[q] = result[q]
    /\ listed'[q] = listed[q]

\* A step in which the invocation of slot p comes to its end.
Completes(p) == pc[p] # "done" /\ pc'[p] = "done"

\* The slots whose call-tool request has returned an error-flagged result.
Failed == {p \in Returned : result[p].isError}

\* C14: a step that ends an invocation, failed ones included, leaves the
\* server running; and a running server accepts a list-tools and a call-tool
\* request on every idle slot, and has an answer for every awaiting one.
C14_FailureKeepsServing ==
    /\ [][\A p \in DOMAIN pc : Completes(p) => running']_vars
    /\ [](running =>
            \A p \in DOMAIN pc :
                /\ pc[p] = "idle" =>
                      /\ ENABLED ListTools(p)
                      /\ ENABLED CallTool(p, "list_payments", NoArguments)
                /\ pc[p] = "awaiting" => ENABLED DoSettle
                /\ pc[p] = "done" => ENABLED Respond(p))

\* One request has failed and is still held; the server runs and has
\* answered a list-tools request on the other slot.
C14_Witness ==
    /\ running
    /\ "r1" \in Failed
    /\ Contains(TextOf("r1"), "GoCardless API error")
    /\ pc["r2"] = "done"
    /\ request["r2"].method = "tools/list"
    /\ listed["r2"] = tools

\* A step in which slot p takes a list-tools request.
ListsTools(p) == pc[p] = "idle" /\ request'[p].method = "tools/list"

\* C15: a list-tools request is accepted on every idle slot of the running
\* server, with or without a token and whatever calls came before; its step
\* changes nothing but its own frame, issues no fetch, and returns the
\* eleven definitions of the registry in the registry's order.
C15_ListToolsPure ==
    /\ [](\A p \in DOMAIN pc :
            /\ (running /\ pc[p] = "idle") => ENABLED ListTools(p)
            /\ (pc[p] = "done" /\ request[p].method = "tools/list") =>
                   /\ listed[p] = ToolList
                   /\ sent[p] = <<>>)
    /\ [][\A p \in DOMAIN pc :
            ListsTools(p) =>
                /\ UNCHANGED <<env, GOCARDLESS_CONFIG, tools, sent, settled, result, running>>
                /\ listed'[p] = ToolList
                /\ \A q \in DOMAIN pc \ {p} : UnchangedFrame(q)]_vars

\* A list-tools request answered without a token while the other slot holds
\* a call that has failed.
C15_Witness ==
    /\ ~TokenConfigured
    /\ pc["r1"] = "done"
    /\ request["r1"].method = "tools/list"
    /\ Len(listed["r1"]) = 11
    /\ "r2" \in Returned

\* The result of a call run alone: the handler up to its fetch, and from the
\* fetch's outcome o to its return.
SoloResult(cfg, name, args, o) ==
    LET step == HandlerStart(cfg, name, args)
    IN  IF step.kind = "await"
        THEN ResultOf(HandlerResume(name, args, step.call, o))
        ELSE ResultOf(step)

\* C16: with calls in flight together and resumed in any order, the fetch of
\* each call and the result it returns are those of the call run alone with
\* the same arguments and the same upstream outcome; and a step of one
\* invocation leaves the frame of every other as it was.
C16_InterleavingIndependent ==
    /\ [](\A p \in Calls :
            LET step == HandlerStart(GOCARDLESS_CONFIG, request[p].name, request[p].arguments)
            IN  /\ pc[p] = "awaiting" => sent[p] = <<step.call>>
                /\ pc[p] = "done" =>
                       result[p] = SoloResult(GOCARDLESS_CONFIG, request[p].name,
                                              request[p].arguments, settled[p]))
    /\ [][running' =>
            \E p \in DOMAIN pc : \A q \in DOMAIN pc \ {p} : UnchangedFrame(q)]_vars

\* Two calls of different tools held together: one has been resumed and has
\* returned its rendering while the other still awaits its fetch.
C16_Witness ==
    /\ pc["r1"] = "awaiting"
    /\ request["r1"].name = "get_customer"
    /\ pc["r2"] = "done"
    /\ request["r2"].name = "list_payments"
    /\ settled["r2"].kind = "ok"
    /\ ~result["r2"].isError

\* C17: the configuration (environment, accessToken, version) and the tool
\* registry are what startup made them, and no step changes them.
C17_ConfigAndRegistryFixed ==
    /\ [](GOCARDLESS_CONFIG = LoadConfig(env) /\ tools = ToolList)
    /\ [][UNCHANGED <<env, GOCARDLESS_CONFIG, tools>>]_vars

C17_Witness ==
    \E p \in Failed :
        /\ settled[p].kind = "rejected"
        /\ GOCARDLESS_CONFIG = LoadConfig(env)
        /\ tools = ToolList

(***************************************************************************)
(* What reaches the outbound request                                       *)
(***************************************************************************)
ListNames == {"list_customers", "list_payments", "list_billing_requests"}

CreateNames ==
    {"create_customer", "create_redirect_flow", "create_billing_request",
     "create_billing_request_flow"}

\* The calls of the tools in names that have issued their fetch.
Fetching(names) == {p \in Calls : request[p].name \in names /\ Len(sent[p]) > 0}

\* The key k is a parameter of the query string of url.
QueryHasKey(url, k) ==
    Contains(url, "?" \o k \o "=") \/ Contains(url, "&" \o k \o "=")

\* The caller supplied k, with a value of the type the schema declares.
Supplied(args, k) == args.defined /\ k \in DOMAIN args.props

SuppliedAsDeclared(name, args, k) ==
    /\ Supplied(args, k)
    /\ TypeOf(args.props[k]) = ToolNamed(tools, name).properties[k]

\* C18: the query string of a list tool's request has a declared key only if
\* the arguments hold it with a value of the declared primitive type
\* (limit: number; after, customer, status: string), and never has a key
\* the schema does not declare.
C18_QueryAllowList ==
    \A p \in Fetching(ListNames) :
        LET name == request[p].name
            args == request[p].arguments
            url == sent[p][1].url
        IN  /\ \A k \in DOMAIN ToolNamed(tools, name).properties :
                   QueryHasKey(url, k) => SuppliedAsDeclared(name, args, k)
            /\ ~QueryHasKey(url, UndeclaredKey)

\* C19: a list tool called without a limit sends the default of its schema:
\* the request carries limit=50.
C19_DefaultLimitSent ==
    \A p \in Fetching(ListNames) :
        ~Supplied(request[p].arguments, "limit") =>
            LET default == ToolNamed(tools, request[p].name).defaults.limit
                url == sent[p][1].url \o "&"
            IN  /\ default = Num(50)
                /\ \/ Contains(url, "?limit=50&")
                   \/ Contains(url, "&limit=50&")

\* The property of the JSON body under which a create handler puts the
\* optional argument k.
BodyKey(k) ==
    CASE k = "customer_company_name" -> "company_name"
      [] k = "payment_reference" -> "reference"
      [] OTHER -> k

BodyHasKey(body, key) == Contains(body, "\"" \o key \o "\":")

\* C20: the JSON body of a create handler has an optional field only if the
\* caller supplied it with a value of the declared type; an optional field
\* not supplied is absent from the body (so never null).
C20_OptionalFieldsAsDeclared ==
    \A p \in Fetching(CreateNames) :
        LET name == request[p].name
            args == request[p].arguments
            tool == ToolNamed(tools, name)
            body == sent[p][1].body.s
        IN  \A k \in (DOMAIN tool.properties) \ tool.required :
                /\ BodyHasKey(body, BodyKey(k)) => SuppliedAsDeclared(name, args, k)
                /\ ~Supplied(args, k) => ~BodyHasKey(body, BodyKey(k))

(***************************************************************************)
(* Identifier checks                                                       *)
(***************************************************************************)
IdNames ==
    {"get_customer", "list_customer_bank_accounts", "get_billing_request",
     "fulfil_billing_request"}

\* The identifier argument a tool of IdNames reads.
IdKey(name) ==
    IF name \in {"get_customer", "list_customer_bank_accounts"}
    THEN "customer_id" ELSE "billing_request_id"

\* The calls of IdNames whose arguments object, or identifier in it, is absent.
WithoutId ==
    {p \in Calls : /\ request[p].name \in IdNames
                   /\ ~Supplied(request[p].arguments, IdKey(request[p].name))}

\* The call of slot p was refused for its missing identifier, before any fetch.
RefusedForId(p) ==
    /\ sent[p] = <<>>
    /\ pc[p] = "done"
    /\ result[p].isError
    /\ TextOf(p) = "Error: " \o IdKey(request[p].name) \o " is required"

\* C21 as stated: for the four identifier tools, an absent identifier or an
\* absent arguments object gives the error-flagged "<id> is required" result
\* and no fetch, whatever the configuration.
C21_MissingIdRefused == \A p \in WithoutId : RefusedForId(p)

\* C21: with a configured token, for the four identifier tools, an absent
\* identifier or an absent arguments object gives the error-flagged result
\* "Error: customer_id is required" / "Error: billing_request_id is
\* required" and no fetch.
C21_MissingIdRefusedWithToken == TokenConfigured => \A p \in WithoutId : RefusedForId(p)

C21_Witness ==
    /\ TokenConfigured
    /\ \E p \in WithoutId :
           /\ request[p].name = "fulfil_billing_request"
           /\ ~request[p].arguments.defined
           /\ TextOf(p) = "Error: billing_request_id is required"
           /\ sent[p] = <<>>

(***************************************************************************)
(* Order of invocations                                                    *)
(***************************************************************************)
\* The fetch the handler issues for a call of name with valid arguments:
\* a function of the configuration, the name and the arguments alone.
OwnFetch(name) == HandlerStart(GOCARDLESS_CONFIG, name, ValidArguments(name)).call

\* C22: with a configured token, every call of create_billing_request,
\* create_billing_request_flow, get_billing_request or fulfil_billing_request
\* with valid arguments issues its own fetch, whichever calls were handled
\* before it and whatever they returned: the step that starts it suspends on
\* exactly that fetch.
C22_NoLifecycleOrder ==
    /\ [](TokenConfigured =>
            \A p \in Calls : sent[p] = <<OwnFetch(request[p].name)>>)
    /\ [][\A p \in DOMAIN pc :
            (TokenConfigured /\ pc[p] = "idle" /\ pc'[p] # "idle") =>
                /\ pc'[p] = "awaiting"
                /\ sent'[p] = <<OwnFetch(request'[p].name)>>]_vars

\* fulfil_billing_request has issued its POST and returned, and an
\* open-flow call has issued its own, while no create_billing_request has
\* been handled at all.
C22_Witness ==
    /\ TokenConfigured
    /\ \A p \in Calls : request[p].name # "create_billing_request"
    /\ \E p \in Returned :
           /\ request[p].name = "fulfil_billing_request"
           /\ settled[p].kind = "ok"
           /\ Contains(sent[p][1].url, "/actions/fulfil")
    /\ \E p \in Calls : request[p].name = "create_billing_request_flow" /\ Len(sent[p]) = 1

(***************************************************************************)
(* Headers of the outbound request                                         *)
(***************************************************************************)
\* The adapter calls that have issued their fetch.
AdapterCalls == {p \in DOMAIN pc : request[p].method = "makeGoCardlessRequest"}

\* The value the adapter gives header k when its caller supplies none.
OwnHeader(k) ==
    CASE k = "Authorization" -> "Bearer " \o GOCARDLESS_CONFIG.accessToken
      [] k = "GoCardless-Version" -> "2015-07-06"
      [] k = "Content-Type" -> "application/json"

\* C23: every fetch carries Authorization: Bearer <accessToken>,
\* GoCardless-Version: 2015-07-06 and Content-Type: application/json; a
\* header supplied by the adapter's caller takes the place of the value of
\* the same name and is added otherwise, and none of the three is ever
\* absent.
C23_HeadersMerged ==
    \A p \in AdapterCalls :
        LET headers == sent[p][1].headers
            given == request[p].arguments.props
        IN  /\ \A k \in {"Authorization", "GoCardless-Version", "Content-Type"} :
                   /\ k \in DOMAIN headers
                   /\ k \notin DOMAIN given => headers[k] = OwnHeader(k)
            /\ \A k \in DOMAIN given : headers[k] = given[k]
            /\ DOMAIN headers =
                   {"Authorization", "GoCardless-Version", "Content-Type"} \cup DOMAIN given

C23_Witness ==
    \E p \in AdapterCalls :
        /\ request[p].arguments.props = ("Content-Type" :> "text/plain")
        /\ sent[p][1].headers["Content-Type"] = "text/plain"
        /\ sent[p][1].headers["Authorization"] = "Bearer live_tok_A1"
        /\ sent[p][1].headers["GoCardless-Version"] = "2015-07-06"

(***************************************************************************)
(* Partial and malformed upstream bodies                                   *)
(***************************************************************************)
\* The billing request r has no payment_request sub-object.
Partial(r) == "payment_request" \notin DOMAIN r

\* The billing requests of the 2xx body slot p received (none without one).
ReceivedBillingRequests(p) ==
    IF settled[p].kind = "ok" /\ HasKey(settled[p].data, "billing_requests")
    THEN settled[p].data.billing_requests ELSE <<>>

\* The entry list_billing_requests shows for a partial billing request r.
PartialEntry(r) ==
    " Amount: N/A N/A\n  ID: " \o r.id.s \o "\n  Status: " \o r.status.s
        \o "\n  Created: " \o r.created_at.s \o "\n  Description: No description"

\* C24: a billing request without a payment_request sub-object is rendered,
\* not refused: get_billing_request shows amount "N/A N/A", description
\* "No description" and reference "None"; list_billing_requests shows the
\* entry with amount "N/A N/A" and description "No description"; neither
\* result is error-flagged.
C24_PartialBillingRequests ==
    \A p \in Returned :
        LET rs == ReceivedBillingRequests(p)
        IN  /\ (request[p].name = "get_billing_request" /\ Len(rs) = 1 /\ Partial(rs[1])) =>
                   /\ ~result[p].isError
                   /\ Contains(TextOf(p), "\nAmount: N/A N/A\n")
                   /\ Contains(TextOf(p), "\nDescription: No description\n")
                   /\ Contains(TextOf(p), "\nReference: None\n")
            /\ request[p].name = "list_billing_requests" =>
                   \A i \in 1..Len(rs) :
                       Partial(rs[i]) =>
                           /\ ~result[p].isError
                           /\ Contains(TextOf(p), PartialEntry(rs[i]))

C24_Witness ==
    \E p \in Returned :
        /\ request[p].name = "list_billing_requests"
        /\ Len(ReceivedBillingRequests(p)) = 2
        /\ Partial(ReceivedBillingRequests(p)[2])
        /\ ~Partial(ReceivedBillingRequests(p)[1])
        /\ Contains(TextOf(p), "Amount: N/A N/A")
        /\ Contains(TextOf(p), "Amount: GBP 29.99")

(***************************************************************************)
(* The access token                                                        *)
(***************************************************************************)
\* The text of slot p is one of the unknown-tool or missing-argument errors.
LookupOrArgumentError(p) ==
    \/ StartsWith(TextOf(p), "Error: Unknown tool")
    \/ StartsWith(TextOf(p), "Error: Arguments required for ")
    \/ TextOf(p) \in {"Error: customer_id is required", "Error: billing_request_id is required"}

\* C25: with an empty access token every call, of a registered name or not,
\* with complete, incomplete or no arguments, returns the one missing-token
\* result, not error-flagged, and issues no fetch; an unknown-tool or
\* missing-argument error is returned only when a token is configured.
C25_TokenCheckFirst ==
    /\ ~TokenConfigured =>
           \A p \in Calls :
               /\ pc[p] = "done"
               /\ sent[p] = <<>>
               /\ result[p] =
                      [content |-> <<[type |-> "text",
                                      text |-> "Error: GOCARDLESS_ACCESS_TOKEN environment variable is not set. Please configure your GoCardless access token."]>>,
                       isError |-> FALSE]
    /\ \A p \in Returned : LookupOrArgumentError(p) => TokenConfigured

\* Without a token, a call of an unregistered name has returned the
\* missing-token result.
C25_Witness ==
    /\ ~TokenConfigured
    /\ \E p \in Returned :
           /\ request[p].name \notin ToolNames(tools)
           /\ ~result[p].isError
           /\ StartsWith(TextOf(p), "Error: GOCARDLESS_ACCESS_TOKEN")

(***************************************************************************)
(* Registry and dispatcher                                                 *)
(***************************************************************************)
\* The call of slot p has ended in the default case of the switch.
EndedUnknown(p) ==
    /\ pc[p] = "done"
    /\ result[p].isError
    /\ StartsWith(TextOf(p), "Error: Unknown tool: ")

\* C26: with a configured token, a call ends in the "Unknown tool" error if
\* and only if its name is not among the names list-tools returns; and what
\* list-tools returns is the registry.
C26_ListedIffHandled ==
    /\ TokenConfigured =>
           \A p \in Calls : EndedUnknown(p) <=> request[p].name \notin ToolNames(tools)
    /\ \A p \in DOMAIN pc :
           (pc[p] = "done" /\ request[p].method = "tools/list") =>
               ToolNames(listed[p]) = ToolNames(tools)

C26_Witness ==
    /\ TokenConfigured
    /\ \E p \in Returned :
           /\ request[p].name = "fulfil_billing_request"
           /\ request[p].name \in ToolNames(tools)
           /\ settled[p].kind = "ok"
           /\ ~EndedUnknown(p)

(***************************************************************************)
(* Methods and endpoints                                                   *)
(***************************************************************************)
ReadNames ==
    {"list_customers", "get_customer", "list_customer_bank_accounts", "list_payments",
     "get_billing_request", "list_billing_requests"}

WriteNames ==
    {"create_customer", "create_redirect_flow", "create_billing_request",
     "create_billing_request_flow", "fulfil_billing_request"}

\* The endpoint path a writing tool posts to.
WritePath(name, args) ==
    CASE name = "create_customer" -> "/customers"
      [] name = "create_redirect_flow" -> "/redirect_flows"
      [] name = "create_billing_request" -> "/billing_requests"
      [] name = "create_billing_request_flow" -> "/billing_request_flows"
      [] name = "fulfil_billing_request" ->
            "/billing_requests/" \o ToStr(Arg(args, "billing_request_id")) \o "/actions/fulfil"

\* C27: every fetch of list_customers, get_customer,
\* list_customer_bank_accounts, list_payments, get_billing_request and
\* list_billing_requests is a GET without a body; a POST is issued only by
\* create_customer, create_redirect_flow, create_billing_request,
\* create_billing_request_flow and fulfil_billing_request, each to its own
\* endpoint path.
C27_ReadToolsOnlyGet ==
    \A p \in Calls : \A i \in 1..Len(sent[p]) :
        LET call == sent[p][i]
            name == request[p].name
        IN  /\ name \in ReadNames \cup WriteNames
            /\ name \in ReadNames =>
                   /\ call.method = Undefined
                   /\ HttpMethod(call) = "GET"
                   /\ call.body = Undefined
            /\ HttpMethod(call) = "POST" =>
                   /\ name \in WriteNames
                   /\ call.url \in
                          {host \o WritePath(name, request[p].arguments) :
                              host \in {"https://api.gocardless.com",
                                        "https://api-sandbox.gocardless.com"}}
            /\ name \in WriteNames => HttpMethod(call) = "POST"

C27_Witness ==
    \E p \in Calls :
        /\ request[p].name = "fulfil_billing_request"
        /\ pc[p] = "awaiting"
        /\ sent[p][1].method = Str("POST")
        /\ sent[p][1].url = "https://api-sandbox.gocardless.com/billing_requests/BRQ0001/actions/fulfil"

\* The configuration that differs from the running one in the token only.
OtherConfig ==
    [GOCARDLESS_CONFIG EXCEPT !.accessToken =
        IF @ = "live_tok_A1" THEN "sandbox_tok_B2" ELSE "live_tok_A1"]

\* A fetch call without its Authorization header.
BesidesAuthorization(call) ==
    [call EXCEPT !.headers = [k \in (DOMAIN call.headers) \ {"Authorization"} |-> call.headers[k]]]

\* C28: of two servers that differ in the value of a non-empty token only,
\* given the same call and the same upstream outcome, both issue the same
\* fetch but for its Authorization header, return the same result and log
\* the same startup lines; and the token occurs in no result text and in no
\* log line.
C28_TokenOnlyInAuthorization ==
    /\ StartupLog(GOCARDLESS_CONFIG) = StartupLog(OtherConfig)
    /\ \A i \in 1..Len(StartupLog(GOCARDLESS_CONFIG)) :
           ~Contains(StartupLog(GOCARDLESS_CONFIG)[i], GOCARDLESS_CONFIG.accessToken)
    /\ \A p \in Calls :
           LET name == request[p].name
               args == request[p].arguments
               other == HandlerStart(OtherConfig, name, args)
           IN  /\ sent[p] # <<>> =>
                      /\ other.kind = "await"
                      /\ BesidesAuthorization(sent[p][1]) = BesidesAuthorization(other.call)
                      /\ sent[p][1].headers["Authorization"]
                             = "Bearer " \o GOCARDLESS_CONFIG.accessToken
               /\ sent[p] = <<>> => other.kind # "await"
               /\ pc[p] = "done" =>
                      /\ result[p] = SoloResult(OtherConfig, name, args, settled[p])
                      /\ ~Contains(TextOf(p), GOCARDLESS_CONFIG.accessToken)

\* An upstream failure reported under the second token.
C28_Witness ==
    /\ GOCARDLESS_CONFIG.accessToken = "sandbox_tok_B2"
    /\ \E p \in Returned :
           /\ settled[p].kind = "not_ok"
           /\ sent[p][1].headers["Authorization"] = "Bearer sandbox_tok_B2"
           /\ result[p] = SoloResult(OtherConfig, request[p].name, request[p].arguments, settled[p])

\* The key of the response body under which a tool expects its resource(s).
ResourceKey(name) ==
    CASE name \in {"list_customers", "create_customer", "get_customer"} -> "customers"
      [] name = "list_customer_bank_accounts" -> "customer_bank_accounts"
      [] name = "create_redirect_flow" -> "redirect_flows"
      [] name = "list_payments" -> "payments"
      [] name = "create_billing_request_flow" -> "billing_request_flows"
      [] OTHER -> "billing_requests"

\* The returned calls whose 2xx response body lacked the expected key.
KeyLacking ==
    {p \in Returned : /\ settled[p].kind = "ok"
                      /\ ~HasKey(settled[p].data, ResourceKey(request[p].name))}

\* C29: a call whose 2xx response body lacks the expected resource key
\* returns an error-flagged result whose text starts with "Error: " (the
\* TypeError of the rendering, caught), and the server keeps running.
C29_MissingKeyIsCaught ==
    \A p \in KeyLacking :
        /\ running
        /\ result[p].isError
        /\ StartsWith(TextOf(p), "Error: ")
        /\ Contains(TextOf(p), "Cannot read properties of undefined")

C29_Witness ==
    \E p \in KeyLacking :
        /\ request[p].name = "get_customer"
        /\ result[p].isError
        /\ TextOf(p) = "Error: Cannot read properties of undefined (reading 'given_name')"

(***************************************************************************)
(* The six-tool and the eleven-tool variant                                *)
(***************************************************************************)
BillingRequestNames ==
    {"create_billing_request", "create_billing_request_flow", "get_billing_request",
     "list_billing_requests", "fulfil_billing_request"}

\* Both variants hold the same call.
SameCall ==
    /\ request[Eleven].method = "tools/call"
    /\ request[Six] = request[Eleven]

\* C30: given the same configuration, the same call and the same upstream
\* outcome, the two variants issue the same fetch and return the same
\* result for every name but the five billing-request names; those the
\* six-tool variant answers, with a token, with the unknown-tool error
\* where the eleven-tool variant handles them; and the six-tool variant
\* lists the eleven-tool list without those five, in the same order.
C30_VariantsAgree ==
    /\ (SameCall /\ request[Six].name \notin BillingRequestNames) =>
           /\ sent[Six] = sent[Eleven]
           /\ (pc[Six] = "done" /\ pc[Eleven] = "done" /\ settled[Six] = settled[Eleven])
                  => result[Six] = result[Eleven]
    /\ (SameCall /\ request[Six].name \in BillingRequestNames /\ TokenConfigured) =>
           /\ sent[Six] = <<>>
           /\ result[Six] =
                  [content |-> <<[type |-> "text",
                                  text |-> "Error: Unknown tool: " \o request[Six].name]>>,
                   isError |-> TRUE]
           /\ ~EndedUnknown(Eleven)
    /\ (listed[Six] # <<>> /\ listed[Eleven] # <<>>) =>
           /\ listed[Six] = SelectSeq(listed[Eleven],
                                      LAMBDA t : t.name \notin BillingRequestNames)
           /\ Len(listed[Six]) = 6
           /\ Len(listed[Eleven]) = 11

\* Both variants have listed the customers of the same two-customer body.
C30_Witness ==
    /\ SameCall
    /\ request[Six].name = "list_customers"
    /\ pc[Six] = "done"
    /\ pc[Eleven] = "done"
    /\ settled[Six] = settled[Eleven]
    /\ settled[Six].kind = "ok"
    /\ HasKey(settled[Six].data, "customers")
    /\ Len(settled[Six].data.customers) = 2
    /\ result[Six] = result[Eleven]
    /\ ~result[Six].isError

=============================================================================
